---- MODULE Spec2Model ----
(***************************************************************************)
(* A model of the VAST validation engine of admein-vast-generator          *)
(* (package validator): the generic tree parser, the versioned catalog,    *)
(* the recursive validation walk, the two hook registries and the          *)
(* built-in media-file probe.                                              *)
(*                                                                         *)
(* Go strings on which the code computes (attribute values, text content,  *)
(* versions) are sequences of one-character strings, so that TrimSpace     *)
(* and comparisons are computed and not assumed.  Element and attribute    *)
(* names are TLA+ strings.                                                 *)
(***************************************************************************)
EXTENDS Integers, Sequences, FiniteSets, TLC

(***************************************************************************)
(* Bounds of the model.                                                    *)
(***************************************************************************)
\* largest number of elements of a generated document
MaxNodes == 3
\* largest number of hooks registered by callers (the built-in one aside)
MaxHooks == 2
\* largest number of options passed to one Validate call
MaxOpts == 2
\* largest number of lexical items of a document handed to the parser alone
MaxTokens == 4

(***************************************************************************)
(* Strings.                                                                *)
(***************************************************************************)
\* the white space strings.TrimSpace cuts (unicode.IsSpace): the blank, the
\* tab, the line feed, the vertical tab, the form feed, the carriage return,
\* and beyond ASCII the next line U+0085, the no-break space U+00A0 and the
\* other characters of the property White_Space.  A character that has no
\* escape in a string is written by its name.
VerticalTab == "\\v"
UnicodeSpaces ==
    {"U+0085", "U+00A0", "U+1680", "U+2000", "U+2001", "U+2002", "U+2003", "U+2004", "U+2005",
     "U+2006", "U+2007", "U+2008", "U+2009", "U+200A", "U+2028", "U+2029", "U+202F", "U+205F",
     "U+3000"}
IsSpace(c) == c \in {" ", "\t", "\n", VerticalTab, "\f", "\r"} \cup UnicodeSpaces

RECURSIVE TrimLeft(_)
TrimLeft(s) ==
    IF s = <<>> THEN <<>>
    ELSE IF IsSpace(Head(s)) THEN TrimLeft(Tail(s)) ELSE s

RECURSIVE TrimRight(_)
TrimRight(s) ==
    IF s = <<>> THEN <<>>
    ELSE IF IsSpace(s[Len(s)]) THEN TrimRight(SubSeq(s, 1, Len(s) - 1)) ELSE s

\* strings.TrimSpace
TrimSpace(s) == TrimRight(TrimLeft(s))

\* vast.Version values (src/vast/version.go)
Version30 == <<"3", ".", "0">>
Version40 == <<"4", ".", "0">>
Version41 == <<"4", ".", "1">>
Version42 == <<"4", ".", "2">>
Version43 == <<"4", ".", "3">>

(***************************************************************************)
(* Analysis categories and statuses.                                       *)
(***************************************************************************)
IABAnalysisCategory == "iab.analysis"
CustomAnalysisCategory == "custom.analysis"

StatusPass == "pass"
StatusFail == "fail"
StatusInfo == "info"

(***************************************************************************)
(* The catalog.  A Catalog is a function from node name to NodeSpec; the   *)
(* maps of a NodeSpec are functions whose domain is the set of keys.       *)
(***************************************************************************)
NoEntries == [n \in {} |-> 0]

AttrSpec(name, versions, required, allowEmpty) ==
    [Name |-> name, Versions |-> versions, Required |-> required, AllowEmpty |-> allowEmpty]

ChildSpec(name, versions) == [Name |-> name, Versions |-> versions]

allSupportedVersions == <<Version30, Version40, Version41, Version42, Version43>>
version40Plus == <<Version40, Version41, Version42, Version43>>

\* A faulty supports: only the first version of the slice is compared.  C3
\* rejects it.
supports_OnlyFirst(spec, version) == spec.Versions[1] = version

\* membership of a version in a Versions slice: the three supports() methods
supports(spec, version) == \E i \in 1..Len(spec.Versions) : spec.Versions[i] = version

\* The built-in catalog, abridged to the element, attribute and child names
\* the generated documents use; no other entry or key is ever looked up.
defaultCatalog ==
    [n \in {"VAST", "Ad", "Extension", "AdVerifications", "MediaFile"} |->
        CASE n = "VAST" ->
               [Name |-> "VAST", Versions |-> allSupportedVersions,
                Attributes |-> ("version" :> AttrSpec("version", allSupportedVersions, TRUE, FALSE)),
                Children |-> ("Ad" :> ChildSpec("Ad", allSupportedVersions)),
                AllowUnknownChildren |-> FALSE]
          [] n = "Ad" ->
               [Name |-> "Ad", Versions |-> allSupportedVersions,
                Attributes |-> ("id" :> AttrSpec("id", allSupportedVersions, FALSE, FALSE)
                                @@ "sequence" :> AttrSpec("sequence", allSupportedVersions, FALSE, FALSE)),
                Children |-> NoEntries,
                AllowUnknownChildren |-> FALSE]
          [] n = "Extension" ->
               [Name |-> "Extension", Versions |-> allSupportedVersions,
                Attributes |-> ("type" :> AttrSpec("type", allSupportedVersions, FALSE, FALSE)),
                Children |-> NoEntries,
                AllowUnknownChildren |-> TRUE]
          [] n = "AdVerifications" ->
               [Name |-> "AdVerifications", Versions |-> version40Plus,
                Attributes |-> NoEntries,
                Children |-> NoEntries,
                AllowUnknownChildren |-> FALSE]
          [] n = "MediaFile" ->
               [Name |-> "MediaFile", Versions |-> allSupportedVersions,
                Attributes |-> ("delivery" :> AttrSpec("delivery", allSupportedVersions, TRUE, FALSE)
                                @@ "type" :> AttrSpec("type", allSupportedVersions, TRUE, FALSE)
                                @@ "width" :> AttrSpec("width", allSupportedVersions, TRUE, FALSE)
                                @@ "height" :> AttrSpec("height", allSupportedVersions, TRUE, FALSE)),
                Children |-> NoEntries,
                AllowUnknownChildren |-> FALSE]]

\* A caller-supplied catalog (WithCatalog) with version gating: Ad exists from
\* 4.0 on and requires id, the version attribute and MediaFile under a parent
\* exist from 4.0 on, seq is an Ad attribute of 4.2 and later that may be empty.
callerCatalog ==
    [n \in {"VAST", "Ad", "MediaFile"} |->
        CASE n = "VAST" ->
               [Name |-> "VAST", Versions |-> allSupportedVersions,
                Attributes |-> ("version" :> AttrSpec("version", version40Plus, TRUE, FALSE)),
                Children |-> ("Ad" :> ChildSpec("Ad", allSupportedVersions)
                              @@ "MediaFile" :> ChildSpec("MediaFile", version40Plus)),
                AllowUnknownChildren |-> FALSE]
          [] n = "Ad" ->
               [Name |-> "Ad", Versions |-> version40Plus,
                Attributes |-> ("id" :> AttrSpec("id", allSupportedVersions, TRUE, FALSE)
                                @@ "seq" :> AttrSpec("seq", <<Version42, Version43>>, FALSE, TRUE)),
                Children |-> ("MediaFile" :> ChildSpec("MediaFile", version40Plus)),
                AllowUnknownChildren |-> FALSE]
          [] n = "MediaFile" ->
               [Name |-> "MediaFile", Versions |-> allSupportedVersions,
                Attributes |-> ("type" :> AttrSpec("type", allSupportedVersions, FALSE, FALSE)),
                Children |-> NoEntries,
                AllowUnknownChildren |-> FALSE]]

\* A caller-supplied catalog whose root allows unknown children; Ad exists
\* from 4.0 on and requires id.
openCatalog ==
    [n \in {"VAST", "Ad"} |->
        CASE n = "VAST" ->
               [Name |-> "VAST", Versions |-> allSupportedVersions,
                Attributes |-> ("version" :> AttrSpec("version", allSupportedVersions, TRUE, FALSE)),
                Children |-> NoEntries,
                AllowUnknownChildren |-> TRUE]
          [] n = "Ad" ->
               [Name |-> "Ad", Versions |-> version40Plus,
                Attributes |-> ("id" :> AttrSpec("id", allSupportedVersions, TRUE, FALSE)),
                Children |-> NoEntries,
                AllowUnknownChildren |-> FALSE]]

\* A caller-supplied catalog without the VAST entry.
rootlessCatalog ==
    [n \in {"Ad"} |->
        [Name |-> "Ad", Versions |-> allSupportedVersions,
         Attributes |-> NoEntries, Children |-> NoEntries,
         AllowUnknownChildren |-> FALSE]]

Catalogs ==
    [default |-> defaultCatalog, caller |-> callerCatalog,
     open |-> openCatalog, rootless |-> rootlessCatalog]

\* the nil *NodeSpec
NilSpec == ""

\* Catalog.node: case-sensitive lookup by name; the spec is named by its key
node(catalog, name) == IF name \in DOMAIN catalog THEN name ELSE NilSpec

(***************************************************************************)
(* Documents.  The raw input is the sequence of lexical items of the       *)
(* markup; "bad" stands for bytes the tokenizer rejects.                   *)
(***************************************************************************)
Attr(name, value) == [Name |-> name, Value |-> value]

StartTok(name, attrs) == [type |-> "start", name |-> name, attrs |-> attrs, data |-> <<>>]
EndTok(name) == [type |-> "end", name |-> name, attrs |-> <<>>, data |-> <<>>]
TextTok(data) == [type |-> "text", name |-> "", attrs |-> <<>>, data |-> data]
CommentTok == [type |-> "comment", name |-> "", attrs |-> <<>>, data |-> <<>>]
BadTok == [type |-> "bad", name |-> "", attrs |-> <<>>, data |-> <<>>]

\* <name attrs>text inner</name>
Elem(name, attrs, text, inner) ==
    <<StartTok(name, attrs)>>
      \o (IF text = <<>> THEN <<>> ELSE <<TextTok(text)>>)
      \o inner \o <<EndTok(name)>>

(***************************************************************************)
(* The tree parser.                                                        *)
(***************************************************************************)
\* What xml.Decoder.Token delivers for the input: the tokens up to the first
\* syntax error.  The decoder keeps its own element stack: it rejects an end
\* tag that closes nothing or another element, and the end of the input
\* while an element is open.
\* the characters of a document: the decoder rejects, written as they are
\* or as character references, the control characters other than the tab,
\* the line feed and the carriage return (isInCharacterRange)
InCharacterRange(c) == c \notin {VerticalTab, "\f"}
AllInCharacterRange(s) == \A i \in 1..Len(s) : InCharacterRange(s[i])
\* the decoder rejects the token: bytes that are no markup, or a character
\* out of range in an attribute value or in character data
Rejected(t) ==
    \/ t.type = "bad"
    \/ t.type = "start" /\ \E k \in 1..Len(t.attrs) : ~AllInCharacterRange(t.attrs[k].Value)
    \/ t.type = "text" /\ ~AllInCharacterRange(t.data)

RECURSIVE DecoderTokens(_, _, _)
DecoderTokens(raw, open, out) ==
    IF raw = <<>>
    THEN [tokens |-> out, syntaxError |-> open # <<>>]
    ELSE LET t == Head(raw) IN
         CASE Rejected(t) -> [tokens |-> out, syntaxError |-> TRUE]
           [] t.type = "start" ->
                DecoderTokens(Tail(raw), Append(open, t.name), Append(out, t))
           [] t.type = "end" ->
                IF open = <<>> \/ open[Len(open)] # t.name
                THEN [tokens |-> out, syntaxError |-> TRUE]
                ELSE DecoderTokens(Tail(raw), SubSeq(open, 1, Len(open) - 1), Append(out, t))
           [] OTHER -> DecoderTokens(Tail(raw), open, Append(out, t))

\* genericNode: the nodes of the tree in the order of their start tags; Parent
\* is the index of the parent node, 0 for an element at the top level, and
\* the Children of a node are the nodes naming it as Parent, in order.
GenericNode(name, attrs, parent) ==
    [Name |-> name, Attrs |-> attrs, Parent |-> parent, Content |-> <<>>]

\* the loop body of buildNodeTree on one token
BuildStep(st, t) ==
    CASE t.type = "start" ->
           [st EXCEPT !.nodes = Append(@, GenericNode(t.name, t.attrs,
                                         IF st.stack = <<>> THEN 0 ELSE st.stack[Len(st.stack)])),
                      !.stack = Append(@, Len(st.nodes) + 1),
                      !.root = IF st.stack = <<>> THEN Len(st.nodes) + 1 ELSE @]
      [] t.type = "end" ->
           IF st.stack = <<>>
           THEN [st EXCEPT !.err = "validator: unexpected closing tag"]
           ELSE [st EXCEPT !.stack = SubSeq(@, 1, Len(@) - 1)]
      [] t.type = "text" ->
           IF st.stack = <<>> \/ TrimSpace(t.data) = <<>>
           THEN st
           ELSE LET cur == st.stack[Len(st.stack)]
                    old == st.nodes[cur].Content
                IN [st EXCEPT !.nodes[cur].Content =
                        (IF old # <<>> THEN old \o <<" ">> ELSE old) \o TrimSpace(t.data)]
      [] OTHER -> st

RECURSIVE BuildLoop(_, _)
BuildLoop(st, toks) ==
    IF toks = <<>> \/ st.err # "" THEN st
    ELSE BuildLoop(BuildStep(st, Head(toks)), Tail(toks))

errEmptyXML == "validator: empty XML document"
errParseXML == "validator: parse XML"

\* buildNodeTree: [err, nodes, root]; err = "" on success
buildNodeTree(raw) ==
    LET dec == DecoderTokens(raw, <<>>, <<>>)
        st == BuildLoop([nodes |-> <<>>, stack |-> <<>>, root |-> 0, err |-> ""], dec.tokens)
    IN IF st.err # "" THEN [err |-> st.err, nodes |-> <<>>, root |-> 0]
       ELSE IF dec.syntaxError THEN [err |-> errParseXML, nodes |-> <<>>, root |-> 0]
       ELSE IF st.root = 0 THEN [err |-> errEmptyXML, nodes |-> <<>>, root |-> 0]
       ELSE [err |-> "", nodes |-> st.nodes, root |-> st.root]

\* genericNode.attrValue: the value of the first attribute of that name
RECURSIVE attrValue(_, _)
attrValue(attrs, name) ==
    IF attrs = <<>> THEN [ok |-> FALSE, value |-> <<>>]
    ELSE IF Head(attrs).Name = name THEN [ok |-> TRUE, value |-> Head(attrs).Value]
    ELSE attrValue(Tail(attrs), name)

\* node.Children, as indices
ChildrenOf(nodes, i) == SelectSeq([k \in 1..Len(nodes) |-> k], LAMBDA k : nodes[k].Parent = i)

(***************************************************************************)
(* Results.                                                                *)
(***************************************************************************)
\* A reason is the format string of the message and its arguments.
Reason(msg, a, b, v) == [msg |-> msg, a |-> a, b |-> b, v |-> v]
EmptyReason == Reason("", "", "", <<>>)

AttributeResult(name, versionSupport, status, reasons) ==
    [Name |-> name, VersionSupport |-> versionSupport, Status |-> status, Reasons |-> reasons]

NodeAnalysisResult(category, status, reasons, attributes) ==
    [Category |-> category, Status |-> status, Reasons |-> reasons, Attributes |-> attributes]

\* AttributeResult.addReason
addReason(attributeResult, msg) ==
    [attributeResult EXCEPT !.Reasons = Append(@, msg)]

\* NodeAnalysisResult.addAttribute
addAttribute(analysis, attributeResult) ==
    [analysis EXCEPT !.Attributes = Append(@, attributeResult)]

\* NodeResult.addAnalysis on the Analyses map: the bucket of the category,
\* created passing when it is missing
addAnalysis(analyses, category) ==
    IF category \in DOMAIN analyses THEN analyses
    ELSE (category :> NodeAnalysisResult(category, StatusPass, <<>>, <<>>)) @@ analyses

\* markFailure: the status becomes fail and the non-empty reasons are appended
markFailure(analysis, reasons) ==
    [analysis EXCEPT !.Status = StatusFail,
                     !.Reasons = @ \o SelectSeq(reasons, LAMBDA r : r # EmptyReason)]

\* A faulty mergeAnalysis: the status of the bucket follows the contribution
\* merged last.  C7 rejects it.
mergeAnalysis_LastStatus(analyses, analysis) ==
    IF analysis.Category \notin DOMAIN analyses
    THEN (analysis.Category :> analysis) @@ analyses
    ELSE LET existing == analyses[analysis.Category]
             joined == [existing EXCEPT !.Attributes = @ \o analysis.Attributes,
                                        !.Status = analysis.Status]
         IN [analyses EXCEPT ![analysis.Category] =
                IF analysis.Status = StatusFail
                THEN markFailure(joined, analysis.Reasons)
                ELSE joined]

\* mergeAnalysis on the Analyses map
mergeAnalysis(analyses, analysis) ==
    IF analysis.Category \notin DOMAIN analyses
    THEN (analysis.Category :> analysis) @@ analyses
    ELSE LET existing == analyses[analysis.Category]
             joined == [existing EXCEPT !.Attributes = @ \o analysis.Attributes]
         IN [analyses EXCEPT ![analysis.Category] =
                IF analysis.Status = StatusFail
                THEN markFailure(joined, analysis.Reasons)
                ELSE joined]

\* CategorySummary
CategorySummary(category, totalNodes, failingNodes, status, reasons) ==
    [Category |-> category, TotalNodes |-> totalNodes, FailingNodes |-> failingNodes,
     Status |-> status, Reasons |-> reasons]

\* the sample of failure reasons of a summary holds at most this many
MaxSummaryReasons == 5

\* the reasons of a failing bucket join the sample of the summary, each
\* non-empty one while the sample is not full
RECURSIVE sampleReasons(_, _)
sampleReasons(sample, reasons) ==
    IF reasons = <<>> THEN sample
    ELSE sampleReasons(IF Head(reasons) # EmptyReason /\ Len(sample) < MaxSummaryReasons
                       THEN Append(sample, Head(reasons)) ELSE sample,
                       Tail(reasons))

\* A faulty walk of summarizeCategories: a passing bucket sets the status of
\* the summary to pass.  C17 rejects it.
summarizeNode_PassResets(summaries, analyses) ==
    [c \in DOMAIN summaries \cup DOMAIN analyses |->
        IF c \notin DOMAIN analyses THEN summaries[c]
        ELSE LET summary == IF c \in DOMAIN summaries THEN summaries[c]
                            ELSE CategorySummary(c, 0, 0, StatusPass, <<>>)
             IN IF analyses[c].Status = StatusFail
                THEN [summary EXCEPT !.TotalNodes = @ + 1, !.FailingNodes = @ + 1,
                                     !.Status = StatusFail,
                                     !.Reasons = sampleReasons(@, analyses[c].Reasons)]
                ELSE [summary EXCEPT !.TotalNodes = @ + 1, !.Status = StatusPass]]

\* the loop over node.Analyses in the walk of summarizeCategories: every
\* bucket of the node is counted in the summary of its category
summarizeNode(summaries, analyses) ==
    [c \in DOMAIN summaries \cup DOMAIN analyses |->
        IF c \notin DOMAIN analyses THEN summaries[c]
        ELSE LET summary == IF c \in DOMAIN summaries THEN summaries[c]
                            ELSE CategorySummary(c, 0, 0, StatusPass, <<>>)
             IN IF analyses[c].Status = StatusFail
                THEN [summary EXCEPT !.TotalNodes = @ + 1, !.FailingNodes = @ + 1,
                                     !.Status = StatusFail,
                                     !.Reasons = sampleReasons(@, analyses[c].Reasons)]
                ELSE [summary EXCEPT !.TotalNodes = @ + 1]]

\* walk of summarizeCategories: the node, then its children in order
RECURSIVE summarizeWalk(_, _, _)
RECURSIVE summarizeChildren(_, _, _)
summarizeWalk(summaries, res, i) ==
    summarizeChildren(summarizeNode(summaries, res[i].Analyses), res, res[i].Children)
summarizeChildren(summaries, res, children) ==
    IF children = <<>> THEN summaries
    ELSE summarizeChildren(summarizeWalk(summaries, res, Head(children)), res, Tail(children))

\* summarizeCategories of the result tree res with root i
summarizeCategories(res, i) == summarizeWalk(NoEntries, res, i)

(***************************************************************************)
(* The checks of validateNodeRecursive on one node.                        *)
(***************************************************************************)
ErrInvalidRoot == "Root element must be VAST"
ErrMissingVersion == "Missing VAST version attribute"
ErrUnsupportedVersion == "Unsupported VAST version"
errCatalogMissingRoot == "validator: catalog missing VAST spec"

\* A faulty validateNodeRecursive: a node that its spec does not support in
\* the version is not checked against its parent.  C22 rejects it.
structuralChecks_ShortCircuit(catalog, name, version, spec, parentSpec, parentAllowsUnknown) ==
    LET iab0 == NodeAnalysisResult(IABAnalysisCategory, StatusPass, <<>>, <<>>)
    IN IF spec = NilSpec
       THEN IF ~parentAllowsUnknown
            THEN markFailure(iab0, <<Reason("node %s is not recognized in catalog", name, "", <<>>)>>)
            ELSE iab0
       ELSE IF ~supports(catalog[spec], version)
       THEN markFailure(iab0, <<Reason("node %s is not supported in VAST %s", name, "", version)>>)
       ELSE IF parentSpec # NilSpec /\ ~parentAllowsUnknown
       THEN IF name \notin DOMAIN catalog[parentSpec].Children
            THEN markFailure(iab0,
                   <<Reason("node %s is not a valid child of %s", name,
                            catalog[parentSpec].Name, <<>>)>>)
            ELSE IF ~supports(catalog[parentSpec].Children[name], version)
            THEN markFailure(iab0,
                   <<Reason("node %s is not allowed for parent %s in VAST %s", name,
                            catalog[parentSpec].Name, version)>>)
            ELSE iab0
       ELSE iab0

\* A faulty validateNodeRecursive: a node whose parent has no spec, the root
\* included, fails the parent-child check.  C29 rejects it.
structuralChecks_OrphanFails(catalog, name, version, spec, parentSpec, parentAllowsUnknown) ==
    LET iab0 == NodeAnalysisResult(IABAnalysisCategory, StatusPass, <<>>, <<>>)
    IN IF spec = NilSpec
       THEN IF ~parentAllowsUnknown
            THEN markFailure(iab0, <<Reason("node %s is not recognized in catalog", name, "", <<>>)>>)
            ELSE iab0
       ELSE LET iab1 == IF ~supports(catalog[spec], version)
                        THEN markFailure(iab0,
                               <<Reason("node %s is not supported in VAST %s", name, "", version)>>)
                        ELSE iab0
            IN IF ~parentAllowsUnknown
               THEN IF parentSpec = NilSpec \/ name \notin DOMAIN catalog[parentSpec].Children
                    THEN markFailure(iab1,
                           <<Reason("node %s is not a valid child of %s", name,
                                    IF parentSpec = NilSpec THEN "" ELSE catalog[parentSpec].Name,
                                    <<>>)>>)
                    ELSE IF ~supports(catalog[parentSpec].Children[name], version)
                    THEN markFailure(iab1,
                           <<Reason("node %s is not allowed for parent %s in VAST %s", name,
                                    catalog[parentSpec].Name, version)>>)
                    ELSE iab1
               ELSE iab1

\* lines 124-140: the spec-compliance bucket after the structural checks.
\* spec and parentSpec are keys of the catalog or NilSpec.
structuralChecks(catalog, name, version, spec, parentSpec, parentAllowsUnknown) ==
    LET iab0 == NodeAnalysisResult(IABAnalysisCategory, StatusPass, <<>>, <<>>)
    IN IF spec = NilSpec
       THEN IF ~parentAllowsUnknown
            THEN markFailure(iab0, <<Reason("node %s is not recognized in catalog", name, "", <<>>)>>)
            ELSE iab0
       ELSE LET iab1 == IF ~supports(catalog[spec], version)
                        THEN markFailure(iab0,
                               <<Reason("node %s is not supported in VAST %s", name, "", version)>>)
                        ELSE iab0
            IN IF parentSpec # NilSpec /\ ~parentAllowsUnknown
               THEN IF name \notin DOMAIN catalog[parentSpec].Children
                    THEN markFailure(iab1,
                           <<Reason("node %s is not a valid child of %s", name,
                                    catalog[parentSpec].Name, <<>>)>>)
                    ELSE IF ~supports(catalog[parentSpec].Children[name], version)
                    THEN markFailure(iab1,
                           <<Reason("node %s is not allowed for parent %s in VAST %s", name,
                                    catalog[parentSpec].Name, version)>>)
                    ELSE iab1
               ELSE iab1

\* A faulty loop body: an attribute that is not valid for the version is not
\* tested for an empty value.  C23 rejects it.
attributeStep_VersionOnly(catalog, version, spec, analysis, attr) ==
    LET attrName == attr.Name
        r0 == AttributeResult(attrName, <<>>, StatusPass, <<>>)
    IN IF spec = NilSpec
       THEN LET msg == Reason("node is not recognized; attribute cannot be validated", "", "", <<>>)
            IN markFailure(addAttribute(analysis, addReason([r0 EXCEPT !.Status = StatusFail], msg)),
                           <<msg>>)
       ELSE IF attrName \notin DOMAIN catalog[spec].Attributes
       THEN LET msg == Reason("attribute %s is not allowed on %s", attrName, catalog[spec].Name, <<>>)
            IN markFailure(addAttribute(analysis, addReason([r0 EXCEPT !.Status = StatusFail], msg)),
                           <<msg>>)
       ELSE LET attrSpec == catalog[spec].Attributes[attrName]
                r1 == [r0 EXCEPT !.VersionSupport = attrSpec.Versions]
                msgV == Reason("attribute %s is not supported in VAST %s", attrName, "", version)
                badV == ~supports(attrSpec, version)
                r2 == IF badV THEN addReason([r1 EXCEPT !.Status = StatusFail], msgV) ELSE r1
                a2 == IF badV THEN markFailure(analysis, <<msgV>>) ELSE analysis
                msgE == Reason("attribute %s cannot be empty", attrName, "", <<>>)
                badE == ~badV /\ TrimSpace(attr.Value) = <<>> /\ ~attrSpec.AllowEmpty
                r3 == IF badE THEN addReason([r2 EXCEPT !.Status = StatusFail], msgE) ELSE r2
                a3 == IF badE THEN markFailure(a2, <<msgE>>) ELSE a2
            IN addAttribute(a3, r3)

\* A faulty loop body: the attributes of a node without spec are recorded as
\* passing.  C24 rejects it.
attributeStep_UnknownPasses(catalog, version, spec, analysis, attr) ==
    LET attrName == attr.Name
        r0 == AttributeResult(attrName, <<>>, StatusPass, <<>>)
    IN IF spec = NilSpec
       THEN addAttribute(analysis, r0)
       ELSE IF attrName \notin DOMAIN catalog[spec].Attributes
       THEN LET msg == Reason("attribute %s is not allowed on %s", attrName, catalog[spec].Name, <<>>)
            IN markFailure(addAttribute(analysis, addReason([r0 EXCEPT !.Status = StatusFail], msg)),
                           <<msg>>)
       ELSE LET attrSpec == catalog[spec].Attributes[attrName]
                r1 == [r0 EXCEPT !.VersionSupport = attrSpec.Versions]
                msgV == Reason("attribute %s is not supported in VAST %s", attrName, "", version)
                badV == ~supports(attrSpec, version)
                r2 == IF badV THEN addReason([r1 EXCEPT !.Status = StatusFail], msgV) ELSE r1
                a2 == IF badV THEN markFailure(analysis, <<msgV>>) ELSE analysis
                msgE == Reason("attribute %s cannot be empty", attrName, "", <<>>)
                badE == TrimSpace(attr.Value) = <<>> /\ ~attrSpec.AllowEmpty
                r3 == IF badE THEN addReason([r2 EXCEPT !.Status = StatusFail], msgE) ELSE r2
                a3 == IF badE THEN markFailure(a2, <<msgE>>) ELSE a2
            IN addAttribute(a3, r3)

\* the body of the loop of validateAttributes over the attributes present
attributeStep(catalog, version, spec, analysis, attr) ==
    LET attrName == attr.Name
        r0 == AttributeResult(attrName, <<>>, StatusPass, <<>>)
    IN IF spec = NilSpec
       THEN LET msg == Reason("node is not recognized; attribute cannot be validated", "", "", <<>>)
            IN markFailure(addAttribute(analysis, addReason([r0 EXCEPT !.Status = StatusFail], msg)),
                           <<msg>>)
       ELSE IF attrName \notin DOMAIN catalog[spec].Attributes
       THEN LET msg == Reason("attribute %s is not allowed on %s", attrName, catalog[spec].Name, <<>>)
            IN markFailure(addAttribute(analysis, addReason([r0 EXCEPT !.Status = StatusFail], msg)),
                           <<msg>>)
       ELSE LET attrSpec == catalog[spec].Attributes[attrName]
                r1 == [r0 EXCEPT !.VersionSupport = attrSpec.Versions]
                msgV == Reason("attribute %s is not supported in VAST %s", attrName, "", version)
                badV == ~supports(attrSpec, version)
                r2 == IF badV THEN addReason([r1 EXCEPT !.Status = StatusFail], msgV) ELSE r1
                a2 == IF badV THEN markFailure(analysis, <<msgV>>) ELSE analysis
                msgE == Reason("attribute %s cannot be empty", attrName, "", <<>>)
                badE == TrimSpace(attr.Value) = <<>> /\ ~attrSpec.AllowEmpty
                r3 == IF badE THEN addReason([r2 EXCEPT !.Status = StatusFail], msgE) ELSE r2
                a3 == IF badE THEN markFailure(a2, <<msgE>>) ELSE a2
            IN addAttribute(a3, r3)

RECURSIVE attributeLoop(_, _, _, _, _)
attributeLoop(catalog, version, spec, analysis, attrs) ==
    IF attrs = <<>> THEN analysis
    ELSE attributeLoop(catalog, version, spec,
                       attributeStep(catalog, version, spec, analysis, Head(attrs)), Tail(attrs))

\* the required attributes of the spec that the node does not carry
missingRequired(catalog, spec, attrs) ==
    IF spec = NilSpec THEN {}
    ELSE {a \in DOMAIN catalog[spec].Attributes :
            /\ catalog[spec].Attributes[a].Required
            /\ \A i \in 1..Len(attrs) : attrs[i].Name # a}

\* A faulty second loop of validateAttributes: missing required attributes are
\* not reported.  C6 rejects it.
requiredLoop_Skipped(catalog, spec, analysis, order) == analysis

\* the second loop of validateAttributes: one synthetic failing entry for each
\* missing required attribute, in the order the map iteration delivers them
RECURSIVE requiredLoop(_, _, _, _)
requiredLoop(catalog, spec, analysis, order) ==
    IF order = <<>> THEN analysis
    ELSE LET attrSpec == catalog[spec].Attributes[Head(order)]
             msg == Reason("missing required attribute %s", attrSpec.Name, "", <<>>)
         IN requiredLoop(catalog, spec,
               markFailure(addAttribute(analysis,
                              AttributeResult(attrSpec.Name, attrSpec.Versions, StatusFail, <<msg>>)),
                           <<msg>>),
               Tail(order))

\* validateAttributes; order is the iteration order of the map of the spec's
\* attributes restricted to the missing required ones
validateAttributes(catalog, attrs, version, spec, analysis, order) ==
    requiredLoop(catalog, spec, attributeLoop(catalog, version, spec, analysis, attrs), order)

\* the sequences that enumerate a set without repetition
RECURSIVE Orders(_)
Orders(S) ==
    IF S = {} THEN {<<>>}
    ELSE UNION {{<<x>> \o o : o \in Orders(S \ {x})} : x \in S}

\* A faulty inheritance: every child is handed the permission.  C4 rejects it.
childAllowsUnknown_Always(catalog, spec, parentAllowsUnknown) == TRUE

\* lines 153-156: the permission handed to the children
childAllowsUnknown(catalog, spec, parentAllowsUnknown) ==
    IF spec # NilSpec /\ catalog[spec].AllowUnknownChildren THEN TRUE ELSE parentAllowsUnknown

(***************************************************************************)
(* The asset probe and the built-in media-file hook.                       *)
(***************************************************************************)
\* strings.ToLower on the letters the model uses
LowerChar(c) ==
    CASE c = "M" -> "m" [] c = "X" -> "x" [] c = "H" -> "h" [] c = "T" -> "t"
      [] c = "P" -> "p" [] c = "S" -> "s" [] c = "C" -> "c" [] OTHER -> c
ToLowerStr(s) == [i \in 1..Len(s) |-> LowerChar(s[i])]

\* strings.Index(s, c) for a one-character c, counted from 1; 0 when absent
RECURSIVE IndexFrom(_, _, _)
IndexFrom(s, c, i) ==
    IF i > Len(s) THEN 0 ELSE IF s[i] = c THEN i ELSE IndexFrom(s, c, i + 1)
IndexOf(s, c) == IndexFrom(s, c, 1)

HasPrefix(s, p) == Len(s) >= Len(p) /\ SubSeq(s, 1, Len(p)) = p

\* What url.Parse finds in an absolute or scheme-less reference: the scheme is
\* what precedes the first ":" when no "/" precedes it, the host is what
\* follows "//" up to the next "/".
urlScheme(s) ==
    LET c == IndexOf(s, ":")
        sl == IndexOf(s, "/")
    IN IF c > 1 /\ (sl = 0 \/ c < sl) THEN ToLowerStr(SubSeq(s, 1, c - 1)) ELSE <<>>
urlRest(s) ==
    LET c == IndexOf(s, ":")
        sl == IndexOf(s, "/")
    IN IF c > 1 /\ (sl = 0 \/ c < sl) THEN SubSeq(s, c + 1, Len(s)) ELSE s
urlHost(s) ==
    LET rest == urlRest(s)
    IN IF HasPrefix(rest, <<"/", "/">>)
       THEN LET after == SubSeq(rest, 3, Len(rest))
                e == IndexOf(after, "/")
            IN IF e = 0 THEN after ELSE SubSeq(after, 1, e - 1)
       ELSE <<>>
\* url.Parse rejects a reference that starts with ":" (missing protocol scheme)
urlParseFails(s) == s # <<>> /\ Head(s) = ":"

\* A faulty normalizeProbeURL: a scheme-relative URL is read as an http URL.
\* C26 rejects it.
normalizeProbeURL_SchemeRelativeHTTP(raw) ==
    LET t0 == TrimSpace(raw)
        trimmed == IF HasPrefix(t0, <<"/", "/">>) THEN <<"h", "t", "t", "p", ":">> \o t0 ELSE t0
    IN IF t0 = <<>> THEN [err |-> "media URL is empty", url |-> <<>>]
       ELSE IF urlParseFails(trimmed) THEN [err |-> "invalid media URL %q: %w", url |-> <<>>]
       ELSE IF urlScheme(trimmed) = <<>> \/ urlHost(trimmed) = <<>>
       THEN [err |-> "invalid media URL %q: missing scheme or host", url |-> <<>>]
       ELSE IF urlScheme(trimmed) # <<"h", "t", "t", "p">>
               /\ urlScheme(trimmed) # <<"h", "t", "t", "p", "s">>
       THEN [err |-> "unsupported media URL scheme %q", url |-> <<>>]
       ELSE [err |-> "", url |-> urlScheme(trimmed) \o <<":">> \o urlRest(trimmed)]

\* normalizeProbeURL: [err, url]
normalizeProbeURL(raw) ==
    LET t0 == TrimSpace(raw)
        trimmed == IF HasPrefix(t0, <<"/", "/">>) THEN <<"h", "t", "t", "p", "s", ":">> \o t0 ELSE t0
    IN IF t0 = <<>> THEN [err |-> "media URL is empty", url |-> <<>>]
       ELSE IF urlParseFails(trimmed) THEN [err |-> "invalid media URL %q: %w", url |-> <<>>]
       ELSE IF urlScheme(trimmed) = <<>> \/ urlHost(trimmed) = <<>>
       THEN [err |-> "invalid media URL %q: missing scheme or host", url |-> <<>>]
       ELSE IF urlScheme(trimmed) # <<"h", "t", "t", "p">>
               /\ urlScheme(trimmed) # <<"h", "t", "t", "p", "s">>
       THEN [err |-> "unsupported media URL scheme %q", url |-> <<>>]
       ELSE [err |-> "", url |-> urlScheme(trimmed) \o <<":">> \o urlRest(trimmed)]

http_StatusMethodNotAllowed == 405

\* the decimal digits of a status code
Digit(d) == CASE d = 0 -> "0" [] d = 1 -> "1" [] d = 2 -> "2" [] d = 3 -> "3" [] d = 4 -> "4"
              [] d = 5 -> "5" [] d = 6 -> "6" [] d = 7 -> "7" [] d = 8 -> "8" [] d = 9 -> "9"
Itoa(n) == <<Digit(n \div 100), Digit((n \div 10) % 10), Digit(n % 10)>>

\* An answer of the remote server to one request: a transport error, or a
\* status code with a Content-Type header.
Response(err, status, contentType) ==
    [err |-> err, StatusCode |-> status, ContentType |-> contentType]

\* What the network does to the requests of one probe: the answer to HEAD and
\* the answer to the ranged GET.
NetOutcomes ==
    { [head |-> Response("", 200, <<"m">>), get |-> Response("", 200, <<"m">>)],
      [head |-> Response("", 200, <<>>), get |-> Response("", 200, <<>>)],
      [head |-> Response("", 200, <<"x">>), get |-> Response("", 200, <<"x">>)],
      [head |-> Response("", 404, <<>>), get |-> Response("", 404, <<>>)],
      [head |-> Response("context deadline exceeded", 0, <<>>), get |-> Response("", 200, <<"m">>)],
      [head |-> Response("", 405, <<>>), get |-> Response("", 206, <<"M", ";", "x">>)],
      [head |-> Response("", 405, <<>>), get |-> Response("connection refused", 0, <<>>)] }

\* no request is sent
NoNet == [head |-> Response("", 0, <<>>), get |-> Response("", 0, <<>>)]

\* probeMediaURL: the final response, or an error
probeMediaURL(rawURL, net) ==
    LET n == normalizeProbeURL(rawURL)
    IN IF n.err # "" THEN Response(n.err, 0, <<>>)
       ELSE IF net.head.err = ""
            THEN IF net.head.StatusCode # http_StatusMethodNotAllowed
                 THEN net.head
                 ELSE net.get
            ELSE net.head

\* a request as doHTTPRequest sends it: the method, the target and the Range
\* header, "" when the request carries none
probeRangeHeader == "bytes=0-0"
Request(method, target, range) == [Method |-> method, URL |-> target, Range |-> range]

\* A faulty probe: the ranged GET is sent after every HEAD that was answered
\* with a failure status.  C13 rejects it.
probeRequests_FallbackOnFailure(rawURL, net) ==
    LET n == normalizeProbeURL(rawURL)
    IN IF n.err # "" THEN <<>>
       ELSE IF net.head.err = "" /\ net.head.StatusCode >= 400
       THEN <<Request("HEAD", n.url, ""), Request("GET", n.url, probeRangeHeader)>>
       ELSE <<Request("HEAD", n.url, "")>>

\* the requests probeMediaURL sends, in order
probeRequests(rawURL, net) ==
    LET n == normalizeProbeURL(rawURL)
    IN IF n.err # "" THEN <<>>
       ELSE IF net.head.err = "" /\ net.head.StatusCode = http_StatusMethodNotAllowed
       THEN <<Request("HEAD", n.url, ""), Request("GET", n.url, probeRangeHeader)>>
       ELSE <<Request("HEAD", n.url, "")>>

\* the requests mediaFileHTTPValidator sends: none for an empty text
mediaFileRequests(content, net) ==
    IF TrimSpace(content) = <<>> THEN <<>> ELSE probeRequests(TrimSpace(content), net)

\* A server that never answers: client.Do returns when the context of the
\* request expires, and never when the context has no deadline.
NoAnswer == "\\no answer"
NoDeadline == 0
doHTTPRequest(deadline, answer) ==
    IF answer.err = NoAnswer THEN Response("context deadline exceeded", 0, <<>>) ELSE answer
\* the answers the requests of a probe get under a deadline
underDeadline(deadline, net) ==
    [head |-> doHTTPRequest(deadline, net.head), get |-> doHTTPRequest(deadline, net.get)]
\* the probe waits for ever: a request it sent is never answered and its
\* context has no deadline
waitsForEver(deadline, requests, net) ==
    /\ deadline = NoDeadline
    /\ \/ Len(requests) >= 1 /\ net.head.err = NoAnswer
       \/ Len(requests) = 2 /\ net.get.err = NoAnswer

\* A faulty media-file hook: the Content-Type is compared with its
\* parameters.  C14 rejects it.
mediaFileHTTPValidator_WithParameters(content, attrs, net) ==
    LET url == TrimSpace(content)
        resp == probeMediaURL(url, net)
        fail(r) == NodeAnalysisResult(CustomAnalysisCategory, StatusFail, <<r>>, <<>>)
        declared == attrValue(attrs, "type")
        expected == ToLowerStr(TrimSpace(declared.value))
        actual == ToLowerStr(TrimSpace(resp.ContentType))
    IN IF url = <<>> THEN fail(Reason("media file URL is empty", "", "", <<>>))
       ELSE IF resp.err # "" THEN fail(Reason("media file request failed: %v", resp.err, "", <<>>))
       ELSE IF resp.StatusCode >= 400
       THEN fail(Reason("media file responded with HTTP %d", "", "", Itoa(resp.StatusCode)))
       ELSE IF declared.ok /\ expected # <<>> /\ actual # <<>> /\ actual # expected
       THEN fail(Reason("content type mismatch: expected %s, got %s", "", "", expected \o <<"|">> \o actual))
       ELSE NodeAnalysisResult(CustomAnalysisCategory, StatusPass, <<>>, <<>>)

\* mediaFileHTTPValidator; content is the text of the node, attrs its attributes
mediaFileHTTPValidator(content, attrs, net) ==
    LET url == TrimSpace(content)
        resp == probeMediaURL(url, net)
        fail(r) == NodeAnalysisResult(CustomAnalysisCategory, StatusFail, <<r>>, <<>>)
        declared == attrValue(attrs, "type")
        expected == ToLowerStr(TrimSpace(declared.value))
        actual0 == ToLowerStr(TrimSpace(resp.ContentType))
        idx == IndexOf(actual0, ";")
        actual == IF idx > 0 THEN TrimSpace(SubSeq(actual0, 1, idx - 1)) ELSE actual0
    IN IF url = <<>> THEN fail(Reason("media file URL is empty", "", "", <<>>))
       ELSE IF resp.err # "" THEN fail(Reason("media file request failed: %v", resp.err, "", <<>>))
       ELSE IF resp.StatusCode >= 400
       THEN fail(Reason("media file responded with HTTP %d", "", "", Itoa(resp.StatusCode)))
       ELSE IF declared.ok /\ expected # <<>> /\ actual # <<>> /\ actual # expected
       THEN fail(Reason("content type mismatch: expected %s, got %s", "", "", expected \o <<"|">> \o actual))
       ELSE NodeAnalysisResult(CustomAnalysisCategory, StatusPass, <<>>, <<>>)

(***************************************************************************)
(* Hooks.  A registered hook is a function value; the model names the      *)
(* functions callers register by what they return.                         *)
(***************************************************************************)
\* the nil *NodeAnalysisResult
NilAnalysis == NodeAnalysisResult("\\nil", "", <<>>, <<>>)

\* the NodeValidatorFunc values callers register
CustomHooks == {"syncNil", "syncPass", "syncFail", "syncInfo"}

\* validator(NodeContext{...}) for a NodeValidatorFunc
callCustom(hook) ==
    CASE hook = "syncNil" -> NilAnalysis
      [] hook = "syncPass" ->
           NodeAnalysisResult("", StatusPass, <<>>,
               <<AttributeResult("syncPass", <<>>, StatusPass, <<>>)>>)
      [] hook = "syncFail" ->
           NodeAnalysisResult(CustomAnalysisCategory, StatusFail,
               <<Reason("custom check failed", "", "", <<>>)>>,
               <<AttributeResult("syncFail", <<>>, StatusFail, <<>>)>>)
      [] hook = "syncInfo" ->
           NodeAnalysisResult("vendor.analysis", StatusInfo,
               <<Reason("vendor note", "", "", <<>>)>>, <<>>)
      [] hook = "syncIAB" ->
           NodeAnalysisResult(IABAnalysisCategory, StatusFail,
               <<Reason("hook verdict", "", "", <<>>)>>,
               <<AttributeResult("syncIAB", <<>>, StatusFail, <<>>)>>)
      [] hook = "syncRegisters" ->
           NodeAnalysisResult("", StatusPass, <<>>,
               <<AttributeResult("syncRegisters", <<>>, StatusPass, <<>>)>>)

\* the HTTPValidatorFunc values callers register, and the built-in one
CallerHTTPHooks == {"httpErr", "httpPass"}
BuiltInHTTPHook == "mediaFileHTTPValidator"

\* validator(ctx, NodeContext{...}, client) for an HTTPValidatorFunc:
\* [analysis, err]
callHTTP(hook, content, attrs, net) ==
    CASE hook = BuiltInHTTPHook ->
           [analysis |-> mediaFileHTTPValidator(content, attrs, net), err |-> ""]
      [] hook = "httpErr" ->
           [analysis |-> NodeAnalysisResult("vendor.analysis", StatusPass, <<>>, <<>>),
            err |-> "hook failed"]
      [] hook = "httpPass" ->
           [analysis |-> NodeAnalysisResult("", StatusPass, <<>>,
                            <<AttributeResult("httpPass", <<>>, StatusPass, <<>>)>>),
            err |-> ""]
      [] hook = "httpIAB" ->
           [analysis |-> NodeAnalysisResult(IABAnalysisCategory, StatusPass, <<>>,
                            <<AttributeResult("httpIAB", <<>>, StatusPass, <<>>)>>),
            err |-> ""]
      [] hook = "httpRegisters" ->
           [analysis |-> NodeAnalysisResult("", StatusPass, <<>>,
                            <<AttributeResult("httpRegisters", <<>>, StatusPass, <<>>)>>),
            err |-> ""]

\* A faulty applyCustomValidators: an analysis without category is merged
\* under the empty category.  C8 rejects it.
applyCustomResult_CategoryKept(analyses, analysis) ==
    IF analysis = NilAnalysis THEN analyses ELSE mergeAnalysis(analyses, analysis)

\* lines 241-244 of applyCustomValidators: the default category, then the merge
applyCustomResult(analyses, analysis) ==
    IF analysis = NilAnalysis THEN analyses
    ELSE mergeAnalysis(analyses,
            IF analysis.Category = "" THEN [analysis EXCEPT !.Category = CustomAnalysisCategory]
            ELSE analysis)

\* A faulty applyHTTPValidators: the result of a hook that returned an error
\* is dropped.  C9 rejects it.
applyHTTPResult_ErrorDropped(analyses, out) ==
    IF out.err # "" THEN analyses ELSE applyCustomResult(analyses, out.analysis)

\* lines 262-272 of applyHTTPValidators: an error becomes a failed analysis
applyHTTPResult(analyses, out) ==
    LET analysis == IF out.err # ""
                    THEN markFailure(NodeAnalysisResult(CustomAnalysisCategory, "", <<>>, <<>>),
                                     <<Reason(out.err, "", "", <<>>)>>)
                    ELSE out.analysis
    IN applyCustomResult(analyses, analysis)

\* strings.ToLower on the element names the model uses
ToLower(name) ==
    CASE name = "VAST" -> "vast"
      [] name = "Ad" -> "ad"
      [] name = "Extension" -> "extension"
      [] name = "AdVerifications" -> "adverifications"
      [] name = "MediaFile" -> "mediafile"
      [] name = "MEDIAFILE" -> "mediafile"
      [] name = "Meta" -> "meta"
      [] OTHER -> name

\* the keys of the two registries
RegistryKeys == {"vast", "ad", "extension", "adverifications", "mediafile", "meta"}

\* the names callers register hooks for
RegNames == {"MEDIAFILE"}

(***************************************************************************)
(* The documents and options the calls are made with.                      *)
(***************************************************************************)
Str42 == <<"4", ".", "2">>
URL1 == <<"h", "t", "t", "p", ":", "/", "/", "c">>

\* a label is what one element carries: name, attributes, text
Label(name, attrs, text) == [name |-> name, attrs |-> attrs, text |-> text]

\* the root elements of the generated trees: version 4.2, " 3.0 " and 5.0
RootLabels ==
    { Label("VAST", <<Attr("version", Str42)>>, <<>>),
      Label("VAST", <<Attr("version", <<" ", "3", ".", "0", " ">>)>>, <<>>),
      Label("VAST", <<Attr("version", <<"5", ".", "0">>)>>, <<>>) }

\* the elements below the root in the generated trees
ChildLabels ==
    { Label("Ad", <<Attr("id", <<"1">>)>>, <<>>),
      Label("Extension", <<>>, <<>>),
      Label("Meta", <<>>, <<>>) }

\* a media file that names its asset
MediaFileLabel ==
    Label("MediaFile", <<Attr("delivery", <<"p">>), Attr("type", <<"m">>),
                         Attr("width", <<"1">>), Attr("height", <<"1">>)>>, URL1)

\* elements that vary the attributes, each used as the only child of a root
AttributeLabels ==
    { MediaFileLabel,
      Label("MediaFile", <<Attr("type", <<"m">>)>>, URL1),
      Label("Ad", <<>>, <<>>),
      Label("Ad", <<Attr("id", <<" ">>)>>, <<>>),
      Label("Ad", <<Attr("id", <<"\r", "U+00A0">>)>>, <<>>),
      Label("Ad", <<Attr("id", <<"1">>), Attr("zz", <<"1">>)>>, <<>>),
      Label("Ad", <<Attr("id", <<"1">>), Attr("seq", <<>>)>>, <<>>),
      Label("Meta", <<Attr("zz", <<"1">>)>>, <<>>),
      Label("MediaFile", <<Attr("type", <<"M">>), Attr("delivery", <<"p">>)>>,
            <<" ">> \o URL1 \o <<"\r">>),
      Label("MediaFile", <<Attr("delivery", <<"p">>), Attr("type", <<>>),
                           Attr("width", <<"1">>), Attr("height", <<"1">>)>>, <<>>) }

\* the sequences of sibling trees with exactly k elements in all
RECURSIVE ForestsOf(_)
ForestsOf(k) ==
    IF k = 0 THEN {<<>>}
    ELSE UNION { { Elem(l.name, l.attrs, l.text, inner) \o rest :
                     l \in ChildLabels, inner \in ForestsOf(j - 1), rest \in ForestsOf(k - j) }
                 : j \in 1..k }

\* the well-formed documents with a VAST root of at most MaxNodes elements
TreeDocs ==
    UNION { { Elem(r.name, r.attrs, r.text, f) : r \in RootLabels, f \in ForestsOf(k) }
            : k \in 0..(MaxNodes - 1) }

AttributeDocs ==
    { Elem(r.name, r.attrs, r.text, Elem(l.name, l.attrs, l.text, <<>>)) :
        r \in RootLabels, l \in AttributeLabels }

\* a verification block carried in an extension, as documents older than 4.0
\* carry it
ExtensionDocs ==
    { Elem(r.name, r.attrs, r.text,
           Elem("Extension", <<>>, <<>>, Elem("AdVerifications", <<>>, <<>>, <<>>))) :
        r \in RootLabels }

VAST42(inner) == Elem("VAST", <<Attr("version", Str42)>>, <<>>, inner)

\* documents at the edge of well-formedness and of the root preconditions
EdgeDocs ==
    { <<>>,
      <<CommentTok>>,
      <<TextTok(<<"x">>)>>,
      <<BadTok>>,
      <<StartTok("VAST", <<Attr("version", Str42)>>)>>,
      <<StartTok("VAST", <<Attr("version", Str42)>>), EndTok("Ad")>>,
      <<EndTok("VAST")>>,
      VAST42(<<>>) \o <<EndTok("VAST")>>,
      VAST42(<<>>) \o <<BadTok>>,
      VAST42(<<CommentTok, TextTok(<<" ">>)>>),
      Elem("Ad", <<Attr("version", Str42)>>, <<>>, <<>>),
      Elem("vast", <<Attr("version", Str42)>>, <<>>, <<>>),
      Elem("VAST", <<>>, <<>>, <<>>),
      Elem("VAST", <<Attr("id", <<"1">>)>>, <<>>, <<>>),
      Elem("VAST", <<Attr("version", <<" ", " ">>)>>, <<>>, <<>>),
      Elem("VAST", <<Attr("version", <<"\r">>)>>, <<>>, <<>>),
      Elem("VAST", <<Attr("version", Str42 \o <<"\r", "U+0085">>)>>, <<>>, <<>>),
      Elem("VAST", <<Attr("version", Str42 \o <<"\r", VerticalTab>>)>>, <<>>, <<>>),
      VAST42(Elem("MediaFile", <<>>, URL1 \o <<"\f">>, <<>>)),
      Elem("VAST", <<Attr("version", <<>>), Attr("version", Str42)>>, <<>>, <<>>),
      Elem("VAST", <<Attr("version", Str42), Attr("version", <<>>)>>, <<>>, <<>>),
      Elem("Ad", <<>>, <<>>, <<>>) \o VAST42(<<>>),
      VAST42(<<>>) \o Elem("Ad", <<>>, <<>>, <<>>) }

Docs == TreeDocs \cup AttributeDocs \cup ExtensionDocs \cup EdgeDocs

\* the options of a call: WithCatalog of each caller-supplied catalog,
\* DisableCustomValidators, DisableHTTPValidators; WithHTTPValidationOptions
\* replaces httpOptions by the value it was given, so options that name only
\* the client carry the zero Timeout
Options == {"WithCatalog(caller)", "WithCatalog(open)", "WithCatalog(rootless)",
            "DisableCustomValidators", "DisableHTTPValidators"}

RECURSIVE SeqsUpTo(_, _)
SeqsUpTo(S, n) ==
    IF n = 0 THEN {<<>>}
    ELSE SeqsUpTo(S, n - 1)
           \cup UNION { {Append(q, x) : x \in S \ {q[i] : i \in 1..Len(q)}} : q \in SeqsUpTo(S, n - 1) }

OptionLists == SeqsUpTo(Options, MaxOpts)

\* the documents and options of the calls made once callers registered hooks:
\* a media file among at most two children of a 4.2 root, the media files of
\* AttributeLabels, and the documents that fail before the walk
HookLabels == {MediaFileLabel, Label("Meta", <<>>, <<>>)}
HookForests ==
    { Elem(l.name, l.attrs, l.text, <<>>) \o rest :
        l \in HookLabels,
        rest \in {<<>>} \cup {Elem(m.name, m.attrs, m.text, <<>>) : m \in HookLabels} }
HookDocs ==
    { VAST42(f) : f \in HookForests }
      \cup { VAST42(Elem(l.name, l.attrs, l.text, <<>>)) :
               l \in {m \in AttributeLabels : m.name = "MediaFile"} }
      \cup { Elem(r.name, r.attrs, r.text, Elem(l.name, l.attrs, l.text, <<>>)) :
               r \in RootLabels, l \in {MediaFileLabel} }
      \cup { d \in EdgeDocs : Len(d) <= 2 }
      \cup { VAST42(Elem(l.name, l.attrs, l.text, Elem(l.name, l.attrs, l.text, <<>>))) :
               l \in {MediaFileLabel} }
      \cup { Elem("VAST", <<>>, <<>>, Elem(l.name, l.attrs, l.text, <<>>)) :
               l \in {MediaFileLabel} }
      \cup { Elem(l.name, l.attrs, l.text, <<>>) : l \in {MediaFileLabel} }
      \cup { Elem(l.name, l.attrs, l.text, <<>>) \o <<BadTok>> : l \in {MediaFileLabel} }
HookOptionLists ==
    SeqsUpTo({"DisableCustomValidators", "DisableHTTPValidators"}, MaxOpts)
      \cup {<<"WithCatalog(rootless)">>}

\* config, without the HTTP client; timeout is httpOptions.Timeout in seconds
DefaultTimeout == 2
defaultConfig ==
    [catalog |-> "default", runCustom |-> TRUE, runHTTP |-> TRUE, timeout |-> DefaultTimeout]

\* A faulty DisableCustomValidators: the network hooks stay enabled.  C10
\* rejects it.
applyOption_CustomOnly(cfg, opt) ==
    CASE opt = "WithCatalog(caller)" -> [cfg EXCEPT !.catalog = "caller"]
      [] opt = "WithCatalog(open)" -> [cfg EXCEPT !.catalog = "open"]
      [] opt = "WithCatalog(rootless)" -> [cfg EXCEPT !.catalog = "rootless"]
      [] opt = "DisableCustomValidators" -> [cfg EXCEPT !.runCustom = FALSE]
      [] opt = "DisableHTTPValidators" -> [cfg EXCEPT !.runHTTP = FALSE]
      [] opt = "WithHTTPValidationOptions(Client: c)" -> [cfg EXCEPT !.timeout = 0]
      [] opt = "WithHTTPValidationOptions(Timeout: 5s)" -> [cfg EXCEPT !.timeout = 5]

\* opt(cfg) for one option
applyOption(cfg, opt) ==
    CASE opt = "WithCatalog(caller)" -> [cfg EXCEPT !.catalog = "caller"]
      [] opt = "WithCatalog(open)" -> [cfg EXCEPT !.catalog = "open"]
      [] opt = "WithCatalog(rootless)" -> [cfg EXCEPT !.catalog = "rootless"]
      [] opt = "DisableCustomValidators" -> [cfg EXCEPT !.runCustom = FALSE, !.runHTTP = FALSE]
      [] opt = "DisableHTTPValidators" -> [cfg EXCEPT !.runHTTP = FALSE]
      [] opt = "WithHTTPValidationOptions(Client: c)" -> [cfg EXCEPT !.timeout = 0]
      [] opt = "WithHTTPValidationOptions(Timeout: 5s)" -> [cfg EXCEPT !.timeout = 5]

\* the loop over the options in Validate
RECURSIVE applyOptions(_, _)
applyOptions(cfg, opts) ==
    IF opts = <<>> THEN cfg ELSE applyOptions(applyOption(cfg, Head(opts)), Tail(opts))

(***************************************************************************)
(* The state.                                                              *)
(***************************************************************************)
VARIABLES
    customValidators,   \* the registry of synchronous hooks: key -> list
    httpValidators,     \* HTTPValidatorRegistry.store: key -> list
    pc,                 \* where the Validate call is: idle, walk, finish, done
    raw,                \* the document of the call
    opts,               \* the set of options passed to the call
    cfg,                \* the config of the call
    nodes,              \* the parsed tree
    root,               \* the index of its root
    version,            \* the declared version, trimmed
    results,            \* the NodeResult of every node visited, by node index
    stack,              \* the calls of validateNodeRecursive in progress
    phase,              \* where the innermost call is: custom, http, children
    pending,            \* the hooks the running loop has still to call
    log,                \* the hook calls made, in order
    ret,                \* what Validate returned
    visits,             \* the nodes validateNodeRecursive was called for, in order
    lookups,            \* the registry lookups of the walk, in order
    prev,               \* what the call before this one returned
    goroutines,         \* the goroutines that register hooks, by name
    mu                  \* the holder of customMu and of httpMu

vars == <<customValidators, httpValidators, pc, raw, opts, cfg, nodes, root, version,
          results, stack, phase, pending, log, ret, visits, lookups, prev, goroutines, mu>>

registries == <<customValidators, httpValidators>>
history == <<visits, lookups>>
callVars == <<raw, opts, cfg, nodes, root, version, results, stack, phase, pending, log, ret,
              visits, lookups>>
\* what a call of Validate on its own goroutine leaves alone
aside == <<prev, goroutines, mu>>

NodeResult(name, versionSupport, analyses, children) ==
    [Node |-> name, VersionSupport |-> versionSupport, Analyses |-> analyses, Children |-> children]

Frame(n, spec, parentSpec, parentAllowsUnknown) ==
    [node |-> n, spec |-> spec, parentSpec |-> parentSpec,
     parentAllowsUnknown |-> parentAllowsUnknown, next |-> 0]

NoReturn ==
    [returned |-> FALSE, err |-> "", hasResult |-> FALSE, Version |-> <<>>, Root |-> 0,
     Summaries |-> NoEntries]

\* no call of Validate has returned yet
NoCall == [returned |-> FALSE]

\* sync.RWMutex of each registry: the goroutine that holds the write lock
NoHolder == ""
Unlocked == [custom |-> NoHolder, http |-> NoHolder]

\* a registry lookup of the walk: the copy of the list it got
Lookup(n, registry, hooks) == [node |-> n, registry |-> registry, hooks |-> hooks]

\* init() of the package: the registries hold the built-in media-file hook
Init ==
    /\ customValidators = [k \in RegistryKeys |-> <<>>]
    /\ httpValidators = [k \in RegistryKeys |->
                            IF k = ToLower("MediaFile") THEN <<BuiltInHTTPHook>> ELSE <<>>]
    /\ pc = "idle"
    /\ raw = <<>>
    /\ opts = {}
    /\ cfg = defaultConfig
    /\ nodes = <<>>
    /\ root = 0
    /\ version = <<>>
    /\ results = NoEntries
    /\ stack = <<>>
    /\ phase = ""
    /\ pending = <<>>
    /\ log = <<>>
    /\ ret = NoReturn
    /\ visits = <<>>
    /\ lookups = <<>>
    /\ prev = NoCall
    /\ goroutines = NoEntries
    /\ mu = Unlocked

(***************************************************************************)
(* Registration.                                                           *)
(***************************************************************************)
\* the hooks registered over the built-in one
RECURSIVE SumLen(_, _)
SumLen(f, S) ==
    IF S = {} THEN 0
    ELSE LET k == CHOOSE k \in S : TRUE IN Len(f[k]) + SumLen(f, S \ {k})
Registered == SumLen(customValidators, RegistryKeys) + SumLen(httpValidators, RegistryKeys) - 1

\* the nil function value
NilHook == "\\nil hook"

RegisterCustomValidator(nodeName, validator) ==
    /\ customValidators' =
          IF validator = NilHook THEN customValidators
          ELSE [customValidators EXCEPT ![ToLower(nodeName)] = Append(@, validator)]
    /\ UNCHANGED <<httpValidators, pc, callVars, aside>>

RegisterHTTPValidator(nodeName, validator) ==
    /\ httpValidators' =
          IF validator = NilHook THEN httpValidators
          ELSE [httpValidators EXCEPT ![ToLower(nodeName)] = Append(@, validator)]
    /\ UNCHANGED <<customValidators, pc, callVars, aside>>

\* A faulty lookup: the copy lists the hooks last registered first.  C20
\* rejects it.
RECURSIVE Reverse(_)
Reverse(q) == IF q = <<>> THEN <<>> ELSE Append(Reverse(Tail(q)), Head(q))
getHTTPValidators_Reversed(nodeName) == Reverse(httpValidators[ToLower(nodeName)])

\* A faulty lookup: the list of a key is copied at the first lookup of a
\* validation and the copy is returned by the later ones.  C12 rejects it.
getCustomValidators_Cached(nodeName) ==
    LET earlier == {k \in 1..Len(lookups) :
                       /\ lookups[k].registry = "custom"
                       /\ ToLower(nodes[lookups[k].node].Name) = ToLower(nodeName)}
    IN IF earlier = {} THEN customValidators[ToLower(nodeName)]
       ELSE lookups[CHOOSE k \in earlier : \A j \in earlier : k <= j].hooks

\* A faulty lookup: the list is looked up under the name as the document
\* writes it.  C28 rejects it.
getCustomValidators_ExactName(nodeName) ==
    IF nodeName \in DOMAIN customValidators THEN customValidators[nodeName] ELSE <<>>

\* getCustomValidators, getHTTPValidators: a copy of the list of the key
getCustomValidators(nodeName) == customValidators[ToLower(nodeName)]
getHTTPValidators(nodeName) == httpValidators[ToLower(nodeName)]

(***************************************************************************)
(* Validate.                                                               *)
(***************************************************************************)
\* lines 116-148 of validateNodeRecursive for the call of frame f: the result
\* of the node with its spec-compliance bucket
enteredResult(catalog, f, order) ==
    LET n == nodes'[f.node]
        iab == structuralChecks(catalog, n.Name, version', f.spec, f.parentSpec,
                                f.parentAllowsUnknown)
        checked == IF ~f.parentAllowsUnknown
                   THEN validateAttributes(catalog, n.Attrs, version', f.spec, iab, order)
                   ELSE iab
    IN NodeResult(n.Name,
                  IF f.spec # NilSpec THEN catalog[f.spec].Versions ELSE <<>>,
                  (IABAnalysisCategory :> checked), <<>>)

\* the iteration orders of the missing required attributes for frame f
requiredOrders(catalog, f) ==
    Orders(IF f.parentAllowsUnknown THEN {}
           ELSE missingRequired(catalog, f.spec, nodes'[f.node].Attrs))

\* the hooks applyHTTPValidators fetches for a node, none when disabled
httpPending(config, nodeName) ==
    IF config.runHTTP THEN getHTTPValidators(nodeName) ELSE <<>>

\* A call of validateNodeRecursive starts: the node's result is created and
\* checked and, unless disabled, applyCustomValidators fetches its hooks.
\* The lookup takes the read lock of the custom registry, so it waits while
\* a writer holds that lock; the lookup of applyHTTPValidators is a later
\* step, BeginHTTP, under the lock of the other registry.
Enter(f) ==
    \E order \in requiredOrders(Catalogs[cfg'.catalog], f) :
        LET name == nodes'[f.node].Name
            custom == IF cfg'.runCustom THEN getCustomValidators(name) ELSE <<>>
        IN /\ cfg'.runCustom => mu.custom = NoHolder
           /\ visits' = Append(visits, f.node)
           /\ lookups' = lookups
                  \o (IF cfg'.runCustom THEN <<Lookup(f.node, "custom", custom)>> ELSE <<>>)
           /\ results' = (f.node :> enteredResult(Catalogs[cfg'.catalog], f, order)) @@ results
           /\ stack' = Append(stack, f)
           /\ pending' = custom
           /\ phase' = "custom"

\* A faulty Validate: the version is not trimmed before the test for a blank
\* one.  C1 rejects it.
fatalError_BlankVersionAccepted(document, config) ==
    LET tree == buildNodeTree(document)
        v == attrValue(tree.nodes[tree.root].Attrs, "version")
    IN IF Len(document) = 0 THEN errEmptyXML
       ELSE IF tree.err # "" THEN tree.err
       ELSE IF tree.nodes[tree.root].Name # "VAST" THEN ErrInvalidRoot
       ELSE IF ~v.ok \/ v.value = <<>> THEN ErrMissingVersion
       ELSE IF node(Catalogs[config.catalog], "VAST") = NilSpec THEN errCatalogMissingRoot
       ELSE ""

\* the error Validate returns before the walk, "" when it walks
fatalError(document, config) ==
    LET tree == buildNodeTree(document)
        v == attrValue(tree.nodes[tree.root].Attrs, "version")
    IN IF Len(document) = 0 THEN errEmptyXML
       ELSE IF tree.err # "" THEN tree.err
       ELSE IF tree.nodes[tree.root].Name # "VAST" THEN ErrInvalidRoot
       ELSE IF ~v.ok \/ TrimSpace(v.value) = <<>> THEN ErrMissingVersion
       ELSE IF node(Catalogs[config.catalog], "VAST") = NilSpec THEN errCatalogMissingRoot
       ELSE ""

SetOf(q) == {q[i] : i \in 1..Len(q)}

Validate(document, options) ==
    /\ pc = "idle"
    /\ raw' = document
    /\ opts' = SetOf(options)
    /\ cfg' = applyOptions(defaultConfig, options)
    /\ log' = <<>>
    /\ UNCHANGED <<registries, aside>>
    /\ LET e == fatalError(document, cfg')
           tree == buildNodeTree(document)
       IN IF e # ""
          THEN /\ pc' = "done"
               /\ ret' = [NoReturn EXCEPT !.returned = TRUE, !.err = e]
               /\ UNCHANGED <<nodes, root, version, results, stack, phase, pending, history>>
          ELSE /\ pc' = "walk"
               /\ ret' = NoReturn
               /\ nodes' = tree.nodes
               /\ root' = tree.root
               /\ version' = TrimSpace(attrValue(tree.nodes[tree.root].Attrs, "version").value)
               /\ Enter(Frame(tree.root, node(Catalogs[cfg'.catalog], "VAST"), NilSpec, FALSE))

Top == stack[Len(stack)]

\* one iteration of the loop of applyCustomValidators
RunCustom ==
    /\ pc = "walk" /\ phase = "custom" /\ pending # <<>>
    /\ LET out == callCustom(Head(pending))
       IN /\ results' = [results EXCEPT ![Top.node].Analyses = applyCustomResult(@, out)]
          /\ log' = Append(log, [node |-> Top.node, registry |-> "custom",
                                 hook |-> Head(pending), err |-> "", analysis |-> out,
                                 net |-> NoNet, requests |-> <<>>, deadline |-> NoDeadline])
    /\ pending' = Tail(pending)
    /\ UNCHANGED <<registries, pc, raw, opts, cfg, nodes, root, version, stack, phase, ret,
                   history, aside>>

\* the loop of applyCustomValidators ends and applyHTTPValidators fetches its
\* hooks
BeginHTTP ==
    /\ pc = "walk" /\ phase = "custom" /\ pending = <<>>
    /\ cfg.runHTTP => mu.http = NoHolder
    /\ pending' = httpPending(cfg, nodes[Top.node].Name)
    /\ lookups' = IF cfg.runHTTP
                  THEN Append(lookups, Lookup(Top.node, "http", pending'))
                  ELSE lookups
    /\ phase' = IF pending' = <<>> THEN "children" ELSE "http"
    /\ UNCHANGED <<registries, pc, raw, opts, cfg, nodes, root, version, results, stack, log, ret,
                   visits, aside>>

\* lines 253-258 of applyHTTPValidators: the context of the hooks of a node
\* has a deadline when httpOptions.Timeout is positive
contextDeadline(config) == IF config.timeout > 0 THEN config.timeout ELSE NoDeadline

\* the hook at the head of the list is the built-in one and its probe sends
\* a request: the text of the node is a URL that normalizeProbeURL accepts
Probes ==
    /\ Head(pending) = BuiltInHTTPHook
    /\ mediaFileRequests(nodes[Top.node].Content, NoNet) # <<>>

\* lines 262-272 of applyHTTPValidators: the hook has returned, the network
\* having answered its requests by net, and its result is merged
MergeHTTP(net, requests, out) ==
    /\ pc' = "walk"
    /\ results' = [results EXCEPT ![Top.node].Analyses = applyHTTPResult(@, out)]
    /\ log' = Append(log, [node |-> Top.node, registry |-> "http",
                           hook |-> Head(pending), err |-> out.err,
                           analysis |-> out.analysis, net |-> net,
                           requests |-> requests, deadline |-> contextDeadline(cfg)])
    /\ pending' = Tail(pending)
    /\ phase' = IF pending' = <<>> THEN "children" ELSE "http"

\* validator(ctx, NodeContext{...}, client) for the hook at the head of the
\* list, the network answering by net under the deadline of the context
hookResult(net) ==
    callHTTP(Head(pending), nodes[Top.node].Content, nodes[Top.node].Attrs,
             underDeadline(contextDeadline(cfg), net))

\* One iteration of the loop of applyHTTPValidators with a hook that sends
\* no request: the hook is called, returns and its result is merged.
CallHTTP ==
    /\ pc = "walk" /\ phase = "http" /\ pending # <<>>
    /\ ~Probes
    /\ LET out == hookResult(NoNet) IN MergeHTTP(NoNet, <<>>, out)
    /\ UNCHANGED <<registries, raw, opts, cfg, nodes, root, version, stack, ret,
                   history, aside>>

\* The loop calls the built-in hook and probeMediaURL sends the HEAD
\* request: client.Do waits for the answer.  The goroutine holds no lock.
SendHEAD ==
    /\ pc = "walk" /\ phase = "http" /\ pending # <<>>
    /\ Probes
    /\ pc' = "head"
    /\ UNCHANGED <<registries, callVars, aside>>

\* client.Do returns from the HEAD request, the network answering by one of
\* outcomes: after 405 the response is closed and the ranged GET is sent,
\* after any other answer the hook returns and its result is merged.  A
\* request that is never answered under no deadline never returns, and
\* neither does Validate.
AnswerHEAD(outcomes) ==
    /\ pc = "head"
    /\ \E net \in outcomes :
         LET requests == mediaFileRequests(nodes[Top.node].Content, net)
             out == hookResult(net)
         IN IF waitsForEver(contextDeadline(cfg), SubSeq(requests, 1, 1), net)
            THEN /\ pc' = "blocked"
                 /\ UNCHANGED <<results, log, pending, phase>>
            ELSE IF Len(requests) = 2
            THEN /\ pc' = "get"
                 /\ UNCHANGED <<results, log, pending, phase>>
            ELSE MergeHTTP(net, requests, out)
    /\ UNCHANGED <<registries, raw, opts, cfg, nodes, root, version, stack, ret,
                   history, aside>>

\* client.Do returns from the ranged GET: the hook returns and its result is
\* merged
AnswerGET(outcomes) ==
    /\ pc = "get"
    /\ \E net \in outcomes :
         LET requests == mediaFileRequests(nodes[Top.node].Content, net)
             out == hookResult(net)
         IN /\ Len(requests) = 2
            /\ IF waitsForEver(contextDeadline(cfg), requests, net)
               THEN /\ pc' = "blocked"
                    /\ UNCHANGED <<results, log, pending, phase>>
               ELSE MergeHTTP(net, requests, out)
    /\ UNCHANGED <<registries, raw, opts, cfg, nodes, root, version, stack, ret,
                   history, aside>>

\* One iteration of the loop of applyHTTPValidators, step by step, the
\* network answering the built-in probe by one of outcomes.
RunHTTPWith(outcomes) ==
    \/ CallHTTP
    \/ SendHEAD
    \/ AnswerHEAD(outcomes)
    \/ AnswerGET(outcomes)

RunHTTP == RunHTTPWith(NetOutcomes)

\* the loop over node.Children calls validateNodeRecursive for the next child
NextChild ==
    /\ pc = "walk" /\ phase = "children"
    /\ Top.next < Len(ChildrenOf(nodes, Top.node))
    /\ UNCHANGED <<registries, pc, raw, opts, cfg, nodes, root, version, log, ret, aside>>
    /\ LET catalog == Catalogs[cfg.catalog]
           child == ChildrenOf(nodes, Top.node)[Top.next + 1]
       IN Enter(Frame(child, node(catalog, nodes[child].Name), Top.spec,
                      childAllowsUnknown(catalog, Top.spec, Top.parentAllowsUnknown)))

\* A faulty loop over the children: the result of a child is put first.  C16
\* rejects it.
appendChild_First(children, child) == <<child>> \o children

\* line 161 of validateNodeRecursive: the result of a child is appended
appendChild(children, child) == Append(children, child)

\* validateNodeRecursive returns: the caller appends the result to Children
Return ==
    /\ pc = "walk" /\ phase = "children"
    /\ Top.next = Len(ChildrenOf(nodes, Top.node))
    /\ IF Len(stack) = 1
       THEN /\ pc' = "finish"
            /\ stack' = <<>>
            /\ UNCHANGED results
       ELSE /\ pc' = pc
            /\ stack' = [SubSeq(stack, 1, Len(stack) - 1) EXCEPT ![Len(stack) - 1].next = @ + 1]
            /\ results' = [results EXCEPT ![stack[Len(stack) - 1].node].Children =
                                              appendChild(@, Top.node)]
    /\ UNCHANGED <<registries, raw, opts, cfg, nodes, root, version, phase, pending, log, ret,
                   history, aside>>

\* A faulty end of Validate: the unsupported version is not recorded.  C2
\* rejects it.
rootVersionSupported_NotRecorded(analyses, rootSpec, v) == analyses

\* lines 106-110 of Validate on the Analyses of the root: an unsupported
\* version fails the spec-compliance bucket
rootVersionSupported(analyses, rootSpec, v) ==
    IF ~supports(rootSpec, v)
    THEN LET a == addAnalysis(analyses, IABAnalysisCategory)
         IN [a EXCEPT ![IABAnalysisCategory] =
                markFailure(@, <<Reason("%s: %s", ErrUnsupportedVersion, "", v)>>)]
    ELSE analyses

\* A faulty end of Validate: the unsupported version is returned as an
\* error of the call, after the walk.  C19 rejects it.
returnedError_UnsupportedVersion ==
    IF ~supports(Catalogs[cfg.catalog]["VAST"], version) THEN ErrUnsupportedVersion ELSE ""

\* line 112 of Validate: the error returned after the walk is nil
returnedError == ""

\* lines 106-112 of Validate: the walk is over, the result is returned
Finish ==
    /\ pc = "finish"
    /\ results' = [results EXCEPT ![root].Analyses =
                      rootVersionSupported(@, Catalogs[cfg.catalog]["VAST"], version)]
    /\ ret' = [returned |-> TRUE, err |-> returnedError, hasResult |-> TRUE,
               Version |-> version, Root |-> root,
               Summaries |-> summarizeCategories(results', root)]
    /\ pc' = "done"
    /\ phase' = ""
    /\ UNCHANGED <<registries, raw, opts, cfg, nodes, root, version, stack, pending, log,
                   history, aside>>

\* The package as initialised, before any caller registers a hook: the
\* custom registry is empty, so the loop of applyCustomValidators never runs.
Next ==
    \/ pc = "idle" /\ \E d \in Docs, o \in OptionLists : Validate(d, o)
    \/ BeginHTTP
    \/ RunHTTP
    \/ NextChild
    \/ Return
    \/ Finish

Spec == Init /\ [][Next]_vars

\* Callers register hooks for the media-file key, then validate documents
\* that carry media files.
NextHooks ==
    \/ \E n \in RegNames, h \in CustomHooks :
          pc = "idle" /\ Registered < MaxHooks /\ RegisterCustomValidator(n, h)
    \/ \E n \in RegNames, h \in CallerHTTPHooks :
          pc = "idle" /\ Registered < MaxHooks /\ RegisterHTTPValidator(n, h)
    \/ pc = "idle" /\ \E d \in HookDocs, o \in HookOptionLists : Validate(d, o)
    \/ RunCustom
    \/ BeginHTTP
    \/ RunHTTP
    \/ NextChild
    \/ Return
    \/ Finish

SpecHooks == Init /\ [][NextHooks]_vars

\* The built-in probe against every kind of server: media files that vary
\* the asset URL and the declared type, servers that vary the answer to HEAD
\* and to the ranged GET, callers that set the HTTP validation options.
ProbeURLs ==
    { URL1,
      <<" ">> \o URL1 \o <<" ">>,
      <<"/", "/", "c">>,
      <<"H", "T", "T", "P", "S", ":", "/", "/", "c">>,
      <<"f", "t", "p", ":", "/", "/", "c">>,
      <<"h", "t", "t", "p", ":">>,
      <<"c">>,
      <<":">>,
      <<" ">>,
      <<>> }
ProbeTypes ==
    { <<>>,
      <<Attr("type", <<>>)>>,
      <<Attr("type", <<" ">>)>>,
      <<Attr("type", <<"m">>)>>,
      <<Attr("type", <<" ", "M", " ">>)>>,
      <<Attr("type", <<"x">>)>>,
      <<Attr("type", <<>>), Attr("type", <<"m">>)>> }
ProbeAttrs(type) ==
    <<Attr("delivery", <<"p">>)>> \o type \o <<Attr("width", <<"1">>), Attr("height", <<"1">>)>>
ProbeDocs ==
    { VAST42(Elem("MediaFile", ProbeAttrs(<<Attr("type", <<"m">>)>>), u, <<>>)) : u \in ProbeURLs }
      \cup { VAST42(Elem("MediaFile", ProbeAttrs(t), URL1, <<>>)) : t \in ProbeTypes }

ProbeStatuses == {200, 206, 301, 399, 400, 404, 405, 500}
ProbeContentTypes ==
    { <<>>, <<" ">>, <<"m">>, <<" ", "M", " ">>, <<"M", ";", "x">>, <<"m", " ", ";">>,
      <<"x">>, <<"x", ";", "m">>, <<";">>, <<";", "m">> }
ProbeErrors == {"connection refused", "context deadline exceeded", NoAnswer}
ProbeAnswers ==
    { Response("", s, c) : s \in ProbeStatuses, c \in ProbeContentTypes }
      \cup { Response(e, 0, <<>>) : e \in ProbeErrors }
\* the answer to the ranged GET matters only when HEAD is answered with 405
ProbeOutcomes ==
    { [head |-> h, get |-> Response("", 200, <<>>)] :
        h \in {a \in ProbeAnswers : a.StatusCode # http_StatusMethodNotAllowed} }
      \cup { [head |-> Response("", http_StatusMethodNotAllowed, c), get |-> g] :
               c \in {<<>>, <<"x">>}, g \in ProbeAnswers }
ProbeOptionLists ==
    SeqsUpTo({"WithHTTPValidationOptions(Client: c)", "WithHTTPValidationOptions(Timeout: 5s)"},
             MaxOpts)

RunProbe == RunHTTPWith(ProbeOutcomes)

NextProbe ==
    \/ pc = "idle" /\ \E d \in ProbeDocs, o \in ProbeOptionLists : Validate(d, o)
    \/ BeginHTTP
    \/ RunProbe
    \/ NextChild
    \/ Return
    \/ Finish

SpecProbe == Init /\ [][NextProbe]_vars

\* The same document validated twice: the caller keeps what the first call
\* returned and calls Validate again with the same document and options,
\* the registries as they were and the remote servers answering as before.
Returned(call) == call.returned
TwiceLabels ==
    { MediaFileLabel,
      Label("MediaFile", <<Attr("type", <<"m">>)>>, URL1),
      Label("Ad", <<>>, <<>>),
      Label("Ad", <<Attr("id", <<"1">>)>>, <<>>) }
TwiceDocs ==
    { Elem(r.name, r.attrs, r.text, Elem(l.name, l.attrs, l.text, <<>>)) :
        r \in RootLabels, l \in TwiceLabels }
      \cup { d \in EdgeDocs : Len(d) <= 1 }
TwiceOptionLists == SeqsUpTo({"DisableHTTPValidators", "WithCatalog(caller)"}, MaxOpts)

Again ==
    /\ pc = "done"
    /\ ~Returned(prev)
    /\ prev' = [returned |-> TRUE, raw |-> raw, opts |-> opts, cfg |-> cfg, ret |-> ret,
                results |-> results, log |-> log]
    /\ pc' = "idle"
    /\ raw' = <<>>
    /\ opts' = {}
    /\ cfg' = defaultConfig
    /\ nodes' = <<>>
    /\ root' = 0
    /\ version' = <<>>
    /\ results' = NoEntries
    /\ stack' = <<>>
    /\ phase' = ""
    /\ pending' = <<>>
    /\ log' = <<>>
    /\ ret' = NoReturn
    /\ visits' = <<>>
    /\ lookups' = <<>>
    /\ UNCHANGED <<registries, goroutines, mu>>

\* the answers of the network to the probe of the node at hand during the
\* first call
SameRemote ==
    {prev.log[k].net : k \in {j \in 1..Len(prev.log) :
                                 /\ prev.log[j].node = Top.node
                                 /\ prev.log[j].hook = BuiltInHTTPHook}}

RunHTTPAgain == RunHTTPWith(IF Returned(prev) THEN SameRemote ELSE NetOutcomes)

NextTwice ==
    \/ pc = "idle" /\ ~Returned(prev) /\ Registered < MaxHooks
          /\ RegisterCustomValidator("MEDIAFILE", "syncFail")
    \/ pc = "idle" /\ ~Returned(prev) /\ Registered < MaxHooks
          /\ RegisterHTTPValidator("MEDIAFILE", "httpErr")
    \/ pc = "idle" /\ \E d \in TwiceDocs, o \in TwiceOptionLists :
          /\ Returned(prev) => (d = prev.raw /\ applyOptions(defaultConfig, o) = prev.cfg
                                  /\ SetOf(o) = prev.opts)
          /\ Validate(d, o)
    \/ RunCustom
    \/ BeginHTTP
    \/ RunHTTPAgain
    \/ NextChild
    \/ Return
    \/ Finish
    \/ Again

SpecTwice == Init /\ [][NextTwice]_vars

\* Goroutines register hooks while a call of Validate walks a document.  A
\* call of RegisterCustomValidator or RegisterHTTPValidator is taken in its
\* steps: the test for nil, Lock, the read of the list of the key, the write
\* of the list with the hook appended and the deferred Unlock.
Call(registry, nodeName, hook) == [registry |-> registry, nodeName |-> nodeName, hook |-> hook]
Goroutine(calls) == [calls |-> calls, pc |-> "ready", local |-> <<>>, made |-> <<>>]
Goroutines == {"g1", "g2"}
\* the calls a goroutine makes, one after the other
Script(g) ==
    IF g = "g1"
    THEN <<Call("custom", "MediaFile", "syncFail"), Call("custom", "MEDIAFILE", NilHook),
           Call("http", "MediaFile", "httpPass"), Call("custom", "Ad", "syncInfo")>>
    ELSE <<Call("custom", "mediafile", "syncPass"), Call("custom", "MediaFile", "syncFail"),
           Call("http", "MEDIAFILE", "httpErr"), Call("http", "Ad", NilHook)>>
Programs(g) ==
    {SubSeq(Script(g), 1, n) : n \in {m \in 0..(MaxHooks + 1) : m <= Len(Script(g))}}
ConcurrentDocs ==
    { VAST42(Elem(l.name, l.attrs, l.text, <<>>)) : l \in {MediaFileLabel} }
      \cup { VAST42(Elem(l.name, l.attrs, l.text, <<>>) \o Elem(l.name, l.attrs, l.text, <<>>)) :
               l \in {MediaFileLabel} }
LiveServer == [head |-> Response("", 200, <<"m">>), get |-> Response("", 200, <<"m">>)]

\* the map of a registry
store(registry) == IF registry = "custom" THEN customValidators ELSE httpValidators

\* A faulty Lock: it returns while another goroutine holds the lock.  C11
\* rejects it.
lockFree_Always(holder) == TRUE

\* Lock returns when no goroutine holds the lock
lockFree(holder) == holder = NoHolder

\* A faulty lookup: the list of the registry itself is returned and the read
\* lock is released when the loop over the hooks ends.  C30 rejects it.
readLocked_WhileHooksRun(registry) == pc = "inhook" /\ phase = registry

\* getCustomValidators, getHTTPValidators: the deferred RUnlock runs when
\* the lookup returns its copy of the list, so a validation holds the read
\* lock of a registry inside the lookup only, never from one step to the next
readLocked(registry) == FALSE

\* go func() { Register...(...) ... }()
Go(g, program) ==
    /\ pc = "idle"
    /\ g \notin DOMAIN goroutines
    /\ goroutines' = (g :> Goroutine(program)) @@ goroutines
    /\ UNCHANGED <<registries, pc, callVars, prev, mu>>

\* the hook is nil: the call returns
ReturnNil(g) ==
    /\ goroutines[g].pc = "ready" /\ goroutines[g].calls # <<>>
    /\ Head(goroutines[g].calls).hook = NilHook
    /\ goroutines' = [goroutines EXCEPT ![g].calls = Tail(@),
                                          ![g].made = Append(@, Head(goroutines[g].calls))]
    /\ UNCHANGED <<registries, pc, callVars, prev, mu>>

Lock(g) ==
    /\ goroutines[g].pc = "ready" /\ goroutines[g].calls # <<>>
    /\ Head(goroutines[g].calls).hook # NilHook
    /\ lockFree(mu[Head(goroutines[g].calls).registry])
    /\ ~readLocked(Head(goroutines[g].calls).registry)
    /\ mu' = [mu EXCEPT ![Head(goroutines[g].calls).registry] = g]
    /\ goroutines' = [goroutines EXCEPT ![g].pc = "locked"]
    /\ UNCHANGED <<registries, pc, callVars, prev>>

\* append reads the list of the key
Load(g) ==
    /\ goroutines[g].pc = "locked"
    /\ LET call == Head(goroutines[g].calls)
       IN goroutines' = [goroutines EXCEPT ![g].pc = "loaded",
                                           ![g].local = store(call.registry)[ToLower(call.nodeName)]]
    /\ UNCHANGED <<registries, pc, callVars, prev, mu>>

\* the list with the hook appended is written to the map, the call returns
\* and its deferred Unlock runs
Store(g) ==
    /\ goroutines[g].pc = "loaded"
    /\ LET call == Head(goroutines[g].calls)
           list == Append(goroutines[g].local, call.hook)
       IN /\ IF call.registry = "custom"
             THEN /\ customValidators' = [customValidators EXCEPT ![ToLower(call.nodeName)] = list]
                  /\ UNCHANGED httpValidators
             ELSE /\ httpValidators' = [httpValidators EXCEPT ![ToLower(call.nodeName)] = list]
                  /\ UNCHANGED customValidators
          /\ mu' = [mu EXCEPT ![call.registry] = NoHolder]
          /\ goroutines' = [goroutines EXCEPT ![g].pc = "ready", ![g].local = <<>>,
                                              ![g].calls = Tail(@),
                                              ![g].made = Append(@, call)]
    /\ UNCHANGED <<pc, callVars, prev>>

\* the server answers every HEAD request with 200: no ranged GET is sent
RunHTTPLive == CallHTTP \/ SendHEAD \/ AnswerHEAD({LiveServer})

NextConcurrent ==
    \/ \E g \in Goroutines : \E program \in Programs(g) : Go(g, program)
    \/ \E g \in DOMAIN goroutines : ReturnNil(g)
    \/ \E g \in DOMAIN goroutines : Lock(g)
    \/ \E g \in DOMAIN goroutines : Load(g)
    \/ \E g \in DOMAIN goroutines : Store(g)
    \/ pc = "idle" /\ \E d \in ConcurrentDocs : Validate(d, <<>>)
    \/ RunCustom
    \/ BeginHTTP
    \/ RunHTTPLive
    \/ NextChild
    \/ Return
    \/ Finish

SpecConcurrent == Init /\ [][NextConcurrent]_vars

\* The tree parser called on its own: every sequence of at most MaxTokens
\* lexical items, and elements whose text comes in several runs, separated
\* by comments, CDATA sections and a child element.
ParserTokens ==
    { StartTok("VAST", <<Attr("b", <<"1">>), Attr("a", <<"2">>), Attr("b", <<>>)>>),
      StartTok("Ad", <<>>), EndTok("VAST"), EndTok("Ad"),
      TextTok(<<"x">>), TextTok(<<" ", "y", "\n">>), TextTok(<<" ">>), CommentTok, BadTok }
TokenSeqs(n) == UNION { [1..k -> ParserTokens] : k \in 0..n }
TextRuns ==
    UNION { [1..k -> {TextTok(<<"x">>), TextTok(<<" ", "y", "\n">>), TextTok(<<" ">>), CommentTok}]
            : k \in 0..2 }
TextDocs ==
    { <<StartTok("VAST", <<>>)>> \o before \o inner \o after \o <<EndTok("VAST")>> :
        before \in TextRuns, after \in TextRuns,
        inner \in {<<>>, Elem("Ad", <<>>, <<"z">>, <<>>),
                   Elem("Ad", <<>>, <<>>, <<>>) \o Elem("Meta", <<>>, <<>>, <<>>)} }
ParserDocs == TokenSeqs(MaxTokens) \cup TextDocs

\* root, err := buildNodeTree(raw)
BuildNodeTree(document) ==
    /\ pc = "idle"
    /\ LET tree == buildNodeTree(document)
       IN /\ raw' = document
          /\ nodes' = tree.nodes
          /\ root' = tree.root
          /\ ret' = [NoReturn EXCEPT !.returned = TRUE, !.err = tree.err,
                                     !.hasResult = (tree.err = ""), !.Root = tree.root]
    /\ pc' = "parsed"
    /\ UNCHANGED <<registries, opts, cfg, version, results, stack, phase, pending, log,
                   history, aside>>

NextParser == \E d \in ParserDocs : BuildNodeTree(d)

SpecParser == Init /\ [][NextParser]_vars

\* Callers register, under names written in any case, hooks that name the
\* category of their result themselves, and validate documents whose media
\* files are written in any case, inside and outside an extension.
NamedCalls ==
    { Call("custom", "MediaFile", "syncIAB"), Call("custom", "mediafile", "syncFail"),
      Call("http", "MEDIAFILE", "httpIAB"), Call("custom", "Ad", "syncIAB"),
      Call("http", "ad", "httpIAB"), Call("custom", "MEDIAFILE", NilHook) }
NamedPrograms == UNION { [1..k -> NamedCalls] : k \in 0..MaxHooks }
NamedLabels ==
    { MediaFileLabel,
      Label("mediafile", <<Attr("type", <<"m">>)>>, URL1),
      Label("MEDIAFILE", <<>>, URL1),
      Label("Ad", <<Attr("id", <<"1">>)>>, <<>>) }
NamedDocs ==
    { VAST42(Elem(l.name, l.attrs, l.text, <<>>)) : l \in NamedLabels }
      \cup { VAST42(Elem(p, <<>>, <<>>, Elem(l.name, l.attrs, l.text, <<>>))) :
               p \in {"Extension", "Meta"}, l \in NamedLabels }
NamedOptionLists == {<<>>, <<"WithCatalog(open)">>}

\* the caller makes its registrations, one call after the other, before it
\* validates
NextNamed ==
    \/ \E program \in NamedPrograms : Go("g1", program)
    \/ pc = "idle" /\ \E g \in DOMAIN goroutines : ReturnNil(g)
    \/ pc = "idle" /\ \E g \in DOMAIN goroutines : Lock(g)
    \/ pc = "idle" /\ \E g \in DOMAIN goroutines : Load(g)
    \/ pc = "idle" /\ \E g \in DOMAIN goroutines : Store(g)
    \/ pc = "idle" /\ \E d \in NamedDocs, o \in NamedOptionLists : Validate(d, o)
    \/ RunCustom
    \/ BeginHTTP
    \/ RunHTTPLive
    \/ NextChild
    \/ Return
    \/ Finish

SpecNamed == Init /\ [][NextNamed]_vars

\* Hooks that register hooks.  A goroutine registers the hooks
\* "syncRegisters" and "httpRegisters" for "Ad"; called on a node,
\* each of them calls RegisterCustomValidator and RegisterHTTPValidator
\* itself, for the name of the node and for another name.  A second
\* validation looks the registries up meanwhile.  Every goroutine that can
\* take a step takes one in the end.
RegisteringHooks == {"syncRegisters", "httpRegisters"}
\* the calls a registering hook makes before it returns
hookCalls(hook, nodeName) ==
    IF hook = "syncRegisters"
    THEN <<Call("custom", nodeName, "syncPass"), Call("http", "MediaFile", "httpPass")>>
    ELSE <<Call("http", nodeName, "httpPass"), Call("custom", "VAST", "syncInfo")>>
\* the calls the validating goroutine makes from inside a hook
HookThread == "hook"
\* a lookup of another validation
GetOp == "\\get"
LiveScript ==
    <<Call("custom", "Ad", "syncRegisters"), Call("http", "ad", "httpRegisters"),
      Call("custom", "VAST", NilHook)>>
LivePrograms ==
    {SubSeq(LiveScript, 1, n) : n \in {m \in 0..(MaxHooks + 1) : m <= Len(LiveScript)}}
LiveLookups ==
    {<<>>, <<Call("custom", "Ad", GetOp), Call("http", "Ad", GetOp)>>}
LiveDocs ==
    { VAST42(Elem("Ad", <<Attr("id", <<"1">>)>>, <<>>, <<>>)),
      VAST42(Elem("Ad", <<Attr("id", <<"1">>)>>, <<>>, <<>>)
               \o Elem("Ad", <<Attr("id", <<"2">>)>>, <<>>, <<>>)) }
LiveThreads == {"g1", "v2", HookThread}

\* applyCustomValidators or applyHTTPValidators calls a registering hook
CallHook ==
    /\ pc = "walk" /\ phase \in {"custom", "http"} /\ pending # <<>>
    /\ Head(pending) \in RegisteringHooks
    /\ HookThread \notin DOMAIN goroutines
    /\ goroutines' = (HookThread :> Goroutine(hookCalls(Head(pending), nodes[Top.node].Name)))
                        @@ goroutines
    /\ pc' = "inhook"
    /\ UNCHANGED <<registries, callVars, prev, mu>>

\* the calls of the hook have returned: the hook returns its analysis and
\* the loop merges it
HookReturns ==
    /\ pc = "inhook" /\ goroutines[HookThread].calls = <<>>
    /\ LET out == IF phase = "custom"
                  THEN [analysis |-> callCustom(Head(pending)), err |-> ""]
                  ELSE callHTTP(Head(pending), nodes[Top.node].Content, nodes[Top.node].Attrs,
                                NoNet)
       IN /\ results' = [results EXCEPT ![Top.node].Analyses =
                            IF phase = "custom" THEN applyCustomResult(@, out.analysis)
                            ELSE applyHTTPResult(@, out)]
          /\ log' = Append(log, [node |-> Top.node, registry |-> phase,
                                 hook |-> Head(pending), err |-> out.err,
                                 analysis |-> out.analysis, net |-> NoNet, requests |-> <<>>,
                                 deadline |-> IF phase = "custom" THEN NoDeadline
                                              ELSE contextDeadline(cfg)])
    /\ pending' = Tail(pending)
    /\ phase' = IF phase = "http" /\ pending' = <<>> THEN "children" ELSE phase
    /\ goroutines' = [g \in DOMAIN goroutines \ {HookThread} |-> goroutines[g]]
    /\ pc' = "walk"
    /\ UNCHANGED <<registries, raw, opts, cfg, nodes, root, version, stack, ret, history,
                   prev, mu>>

\* a lookup of another validation: RLock, the copy of the list, RUnlock
Get(g) ==
    /\ goroutines[g].pc = "ready" /\ goroutines[g].calls # <<>>
    /\ Head(goroutines[g].calls).hook = GetOp
    /\ lockFree(mu[Head(goroutines[g].calls).registry])
    /\ goroutines' = [goroutines EXCEPT ![g].calls = Tail(@),
                                          ![g].made = Append(@, Head(goroutines[g].calls))]
    /\ UNCHANGED <<registries, pc, callVars, prev, mu>>

\* the next step of a goroutine that registers or looks up
StepOf(g) ==
    /\ g \in DOMAIN goroutines
    /\ \/ ReturnNil(g)
       \/ goroutines[g].calls # <<>> /\ Head(goroutines[g].calls).hook # GetOp /\ Lock(g)
       \/ Load(g)
       \/ Store(g)
       \/ Get(g)

\* the next step of the validation
StepOfValidate ==
    \/ CallHook
    \/ HookReturns
    \/ pc = "walk" /\ pending # <<>> /\ Head(pending) \notin RegisteringHooks /\ RunCustom
    \/ BeginHTTP
    \/ pc = "walk" /\ pending # <<>> /\ Head(pending) \notin RegisteringHooks /\ CallHTTP
    \/ NextChild
    \/ Return
    \/ Finish

NextLive ==
    \/ \E program \in LivePrograms : Go("g1", program)
    \/ \E program \in LiveLookups : Go("v2", program)
    \/ \E g \in LiveThreads : StepOf(g)
    \/ pc = "idle" /\ \E d \in LiveDocs : Validate(d, <<>>)
    \/ StepOfValidate

\* the scheduler runs every goroutine that is able to run
FairLive ==
    /\ \A g \in LiveThreads : WF_vars(StepOf(g))
    /\ WF_vars(StepOfValidate)

SpecLive == Init /\ [][NextLive]_vars /\ FairLive

\* Registrations from other goroutines and from running hooks, together.
\* Two goroutines register hooks for "Ad" and "MediaFile", under several
\* spellings, among them the hooks that register hooks themselves; the
\* validation walks a document with one element, with two elements of one
\* name or with elements of two names.
SnapshotScript(g) ==
    IF g = "g1"
    THEN <<Call("custom", "Ad", "syncRegisters"), Call("http", "ad", "httpRegisters"),
           Call("custom", "ad", NilHook)>>
    ELSE <<Call("custom", "ad", "syncFail"), Call("http", "Ad", "httpErr"),
           Call("http", "MEDIAFILE", "httpPass")>>
SnapshotPrograms(g) ==
    {SubSeq(SnapshotScript(g), 1, n) :
        n \in {m \in 0..(MaxHooks + 1) : m <= Len(SnapshotScript(g))}}
SnapshotDocs ==
    LiveDocs \cup
      { VAST42(Elem("Ad", <<Attr("id", <<"1">>)>>, <<>>, <<>>)
                 \o Elem(l.name, l.attrs, l.text, <<>>)) : l \in {MediaFileLabel} }

NextSnapshot ==
    \/ \E g \in Goroutines : \E program \in SnapshotPrograms(g) : Go(g, program)
    \/ \E g \in DOMAIN goroutines : ReturnNil(g)
    \/ \E g \in DOMAIN goroutines : Lock(g)
    \/ \E g \in DOMAIN goroutines : Load(g)
    \/ \E g \in DOMAIN goroutines : Store(g)
    \/ pc = "idle" /\ \E d \in SnapshotDocs : Validate(d, <<>>)
    \/ CallHook
    \/ HookReturns
    \/ pc = "walk" /\ pending # <<>> /\ Head(pending) \notin RegisteringHooks /\ RunCustom
    \/ BeginHTTP
    \/ pc = "walk" /\ pending # <<>> /\ Head(pending) \notin RegisteringHooks /\ CallHTTP
    \/ SendHEAD
    \/ AnswerHEAD({LiveServer})
    \/ NextChild
    \/ Return
    \/ Finish

SpecSnapshot == Init /\ [][NextSnapshot]_vars

(***************************************************************************)
(* Notions the properties are stated with.  They are computed from the     *)
(* document and the catalog, not from the walk.                            *)
(***************************************************************************)
Done == pc = "done"
Succeeded == Done /\ ret.hasResult
TheCatalog == Catalogs[cfg.catalog]
IAB(i) == results[i].Analyses[IABAnalysisCategory]
Reasons(i, c) == SetOf(results[i].Analyses[c].Reasons)

\* the tag tokens of a document, and the cancellation of one innermost
\* <n></n> pair: a document is well formed when no token is rejected and the
\* cancellation of pairs leaves no tag
Tags(d) == SelectSeq(d, LAMBDA t : t.type \in {"start", "end"})
RECURSIVE Cancel(_)
Cancel(tags) ==
    IF \E i \in 1..(Len(tags) - 1) :
          tags[i].type = "start" /\ tags[i + 1].type = "end" /\ tags[i].name = tags[i + 1].name
    THEN LET i == CHOOSE i \in 1..(Len(tags) - 1) :
                    tags[i].type = "start" /\ tags[i + 1].type = "end"
                    /\ tags[i].name = tags[i + 1].name
         IN Cancel(SubSeq(tags, 1, i - 1) \o SubSeq(tags, i + 2, Len(tags)))
    ELSE tags
\* the characters a token carries, in its character data and in its
\* attribute values, and the characters XML allows in no document
CharsOf(t) ==
    SetOf(t.data) \cup UNION {SetOf(t.attrs[k].Value) : k \in 1..Len(t.attrs)}
ForbiddenChars == {VerticalTab, "\f"}
WellFormed(d) ==
    /\ \A i \in 1..Len(d) : d[i].type # "bad" /\ CharsOf(d[i]) \cap ForbiddenChars = {}
    /\ Cancel(Tags(d)) = <<>>

\* the number of elements open before token i
Depth(d, i) ==
    Cardinality({k \in 1..(i - 1) : d[k].type = "start"})
      - Cardinality({k \in 1..(i - 1) : d[k].type = "end"})
\* the start tags at the top level; the last one is the root the parser keeps
TopStarts(d) == {i \in 1..Len(d) : d[i].type = "start" /\ Depth(d, i) = 0}
RootTok(d) == d[CHOOSE i \in TopStarts(d) : \A k \in TopStarts(d) : k <= i]
\* the version the root declares, as the lookup by name delivers it
Declared(d) == attrValue(RootTok(d).attrs, "version")
DeclaredVersion(d) == TrimSpace(Declared(d).value)

\* the fatal classes
EmptyInput(d) == d = <<>> \/ (WellFormed(d) /\ TopStarts(d) = {})
Malformed(d) == d # <<>> /\ ~WellFormed(d)
WrongRoot(d) == WellFormed(d) /\ TopStarts(d) # {} /\ RootTok(d).name # "VAST"
NoVersion(d) ==
    /\ WellFormed(d) /\ TopStarts(d) # {} /\ RootTok(d).name = "VAST"
    /\ (~Declared(d).ok \/ DeclaredVersion(d) = <<>>)
NoRootSpec == "VAST" \notin DOMAIN TheCatalog
FatalInput == EmptyInput(raw) \/ Malformed(raw) \/ WrongRoot(raw) \/ NoVersion(raw) \/ NoRootSpec

\* the nodes of the parsed tree below and including the root
RECURSIVE IsUnder(_, _)
IsUnder(i, a) ==
    IF i = a THEN TRUE ELSE IF nodes[i].Parent = 0 THEN FALSE ELSE IsUnder(nodes[i].Parent, a)
TreeNodes == {i \in 1..Len(nodes) : IsUnder(i, root)}
ProperAncestors(i) == {a \in TreeNodes : a # i /\ IsUnder(i, a)}
Recognized(i) == nodes[i].Name \in DOMAIN TheCatalog
SpecOf(i) == TheCatalog[nodes[i].Name]
\* some ancestor has a spec that allows unknown children
UnderAllowUnknown(i) ==
    \E a \in ProperAncestors(i) : Recognized(a) /\ SpecOf(a).AllowUnknownChildren
\* the nearest ancestor the catalog recognizes
NearestRecognized(i) ==
    CHOOSE a \in ProperAncestors(i) :
        /\ Recognized(a)
        /\ \A b \in ProperAncestors(i) : Recognized(b) => IsUnder(a, b)

InVersions(versions, v) == \E k \in 1..Len(versions) : versions[k] = v

\* the whole result: one NodeResult with a spec-compliance bucket for every
\* node of the tree, named after it, and the children in the order of the tree
FullResult ==
    /\ ret.Root = root
    /\ DOMAIN results = TreeNodes
    /\ \A i \in TreeNodes :
          /\ results[i].Node = nodes[i].Name
          /\ IABAnalysisCategory \in DOMAIN results[i].Analyses
          /\ results[i].Children = ChildrenOf(nodes, i)

(***************************************************************************)
(* C1.  Validate has exactly two outcomes, (no result, error) and (full    *)
(* result, no error); the error is returned exactly for the fatal classes: *)
(* empty input or no element, malformed markup, a root that is not VAST,   *)
(* a missing or blank version, a catalog without the VAST spec.  Every     *)
(* other document yields a full result.                                    *)
(***************************************************************************)
C1_TwoOutcomes ==
    Done =>
        /\ ret.returned
        /\ (ret.err # "") # ret.hasResult
        /\ (ret.err # "") <=> FatalInput
        /\ ret.hasResult => FullResult
        /\ EmptyInput(raw) => ret.err = errEmptyXML
        /\ Malformed(raw) => ret.err \in {errParseXML, "validator: unexpected closing tag"}

\* a call returned a full result in which nodes failed, and another call
\* failed on a blank version
C1_Witness ==
    /\ Done
    /\ \/ /\ ret.hasResult /\ Cardinality(TreeNodes) = 3
          /\ \E i \in TreeNodes : ~Recognized(i)
          /\ \E i \in TreeNodes : IAB(i).Status = StatusFail
       \/ ret.err = ErrMissingVersion /\ Declared(raw).ok

(***************************************************************************)
(* C2.  The declared version fixes the rule set of the whole document: it  *)
(* is reported, trimmed, as the result's Version; when the root's spec     *)
(* does not support it the root's spec-compliance bucket fails with an     *)
(* "Unsupported VAST version" reason; and every version gate of the walk   *)
(* (node, child relationship, attribute) is decided with that value.       *)
(***************************************************************************)
NodeGate(i, v) ==
    Recognized(i) =>
        (Reason("node %s is not supported in VAST %s", nodes[i].Name, "", v)
            \in Reasons(i, IABAnalysisCategory)
         <=> ~InVersions(SpecOf(i).Versions, v))

ChildGate(i, v) ==
    LET p == nodes[i].Parent IN
    (/\ i # root /\ Recognized(i) /\ Recognized(p) /\ ~UnderAllowUnknown(i)
     /\ nodes[i].Name \in DOMAIN SpecOf(p).Children)
    => (Reason("node %s is not allowed for parent %s in VAST %s", nodes[i].Name,
               nodes[p].Name, v) \in Reasons(i, IABAnalysisCategory)
        <=> ~InVersions(SpecOf(p).Children[nodes[i].Name].Versions, v))

AttributeGate(i, v) ==
    (Recognized(i) /\ ~UnderAllowUnknown(i)) =>
        \A k \in 1..Len(nodes[i].Attrs) :
            LET a == nodes[i].Attrs[k].Name IN
            a \in DOMAIN SpecOf(i).Attributes =>
                (Reason("attribute %s is not supported in VAST %s", a, "", v)
                    \in Reasons(i, IABAnalysisCategory)
                 <=> ~InVersions(SpecOf(i).Attributes[a].Versions, v))

C2_DeclaredVersion ==
    Succeeded =>
        LET v == DeclaredVersion(raw) IN
        /\ ret.Version = v
        /\ \A i \in TreeNodes :
              /\ NodeGate(i, v) /\ ChildGate(i, v) /\ AttributeGate(i, v)
              /\ \A r \in Reasons(i, IABAnalysisCategory) : r.v # <<>> => r.v = v
        /\ ~InVersions(SpecOf(root).Versions, v) =>
              /\ IAB(root).Status = StatusFail
              /\ Reason("%s: %s", ErrUnsupportedVersion, "", v) \in Reasons(root, IABAnalysisCategory)

\* a document of an unsupported version was walked, with an element below
\* the root that carries attributes
C2_Witness ==
    /\ Succeeded
    /\ ~InVersions(SpecOf(root).Versions, DeclaredVersion(raw))
    /\ \E i \in TreeNodes : i # root /\ Recognized(i) /\ nodes[i].Attrs # <<>>

\* the version is written with surrounding blanks and gates an element out
C2_WitnessTrimmed ==
    /\ Succeeded
    /\ DeclaredVersion(raw) # Declared(raw).value
    /\ \E i \in TreeNodes : Recognized(i) /\ ~InVersions(SpecOf(i).Versions, DeclaredVersion(raw))

(***************************************************************************)
(* C3.  With no caller hook registered, a document in which every node is  *)
(* in the catalog, supported in the declared version and an allowed child  *)
(* of its parent, and which carries only allowed, version-valid, non-empty *)
(* attributes and every required one, passes the spec-compliance bucket on *)
(* every node.                                                             *)
(***************************************************************************)
ValidNode(i, v) ==
    /\ Recognized(i)
    /\ InVersions(SpecOf(i).Versions, v)
    /\ i # root =>
          LET p == nodes[i].Parent IN
          /\ Recognized(p)
          /\ nodes[i].Name \in DOMAIN SpecOf(p).Children
          /\ InVersions(SpecOf(p).Children[nodes[i].Name].Versions, v)
    /\ \A k \in 1..Len(nodes[i].Attrs) :
          LET a == nodes[i].Attrs[k] IN
          /\ a.Name \in DOMAIN SpecOf(i).Attributes
          /\ InVersions(SpecOf(i).Attributes[a.Name].Versions, v)
          /\ TrimSpace(a.Value) # <<>>
    /\ \A a \in DOMAIN SpecOf(i).Attributes :
          SpecOf(i).Attributes[a].Required => \E k \in 1..Len(nodes[i].Attrs) : nodes[i].Attrs[k].Name = a

ValidDocument == \A i \in TreeNodes : ValidNode(i, DeclaredVersion(raw))

NoCallerHooks ==
    /\ \A k \in RegistryKeys : customValidators[k] = <<>>
    /\ \A k \in RegistryKeys : \A j \in 1..Len(httpValidators[k]) : httpValidators[k][j] = BuiltInHTTPHook

C3_ValidDocumentPasses ==
    (Succeeded /\ NoCallerHooks /\ ValidDocument) =>
        \A i \in TreeNodes :
            /\ IAB(i).Status = StatusPass
            /\ IAB(i).Reasons = <<>>
            /\ \A k \in 1..Len(IAB(i).Attributes) : IAB(i).Attributes[k].Status = StatusPass

\* a valid document of three elements, one of them with attributes, walked
C3_Witness ==
    /\ Succeeded /\ NoCallerHooks /\ ValidDocument
    /\ Cardinality(TreeNodes) = 3
    /\ \E i \in TreeNodes : i # root /\ nodes[i].Attrs # <<>>

(***************************************************************************)
(* C4.  As the claim states it: a node whose name is not in the catalog    *)
(* and whose nearest recognized ancestor does not allow unknown children   *)
(* fails the spec-compliance bucket with at least one reason.              *)
(***************************************************************************)
UnknownFails(i) ==
    /\ IAB(i).Status = StatusFail
    /\ Reason("node %s is not recognized in catalog", nodes[i].Name, "", <<>>)
          \in Reasons(i, IABAnalysisCategory)

C4_NearestAncestor ==
    Succeeded =>
        \A i \in TreeNodes :
            (/\ ~Recognized(i)
             /\ \E a \in ProperAncestors(i) : Recognized(a)
             /\ ~SpecOf(NearestRecognized(i)).AllowUnknownChildren)
            => UnknownFails(i)

(***************************************************************************)
(* C4, amended.  A node whose name is not in the catalog and none of whose *)
(* ancestors has a spec that allows unknown children fails the             *)
(* spec-compliance bucket with a "not recognized" reason: the permission   *)
(* of an ancestor reaches its whole subtree, through recognized nodes too. *)
(***************************************************************************)
C4_NoPermittingAncestor ==
    Succeeded =>
        \A i \in TreeNodes : (~Recognized(i) /\ ~UnderAllowUnknown(i)) => UnknownFails(i)

\* an unknown element without attributes below a recognized element, no
\* ancestor permitting unknown children
C4_Witness ==
    /\ Succeeded
    /\ \E i \in TreeNodes :
          /\ ~Recognized(i) /\ ~UnderAllowUnknown(i) /\ nodes[i].Attrs = <<>>
          /\ nodes[i].Parent # root /\ Recognized(nodes[i].Parent)

(***************************************************************************)
(* C5.  As the claim states it: every node below a node whose spec allows  *)
(* unknown children is exempt from the spec-compliance checks, whether or  *)
(* not the catalog knows its name: its bucket passes and records nothing.  *)
(***************************************************************************)
C5_SubtreeExempt ==
    Succeeded =>
        \A i \in TreeNodes \ {root} :
            UnderAllowUnknown(i) =>
                /\ IAB(i).Status = StatusPass
                /\ IAB(i).Reasons = <<>>
                /\ IAB(i).Attributes = <<>>

\* what the code does exempt below such a node: the unknown-name check, the
\* parent-child check and the attribute checks
C5_ExemptButForNodeVersion ==
    Succeeded =>
        \A i \in TreeNodes \ {root} :
            UnderAllowUnknown(i) =>
                /\ IAB(i).Attributes = <<>>
                /\ \A r \in Reasons(i, IABAnalysisCategory) :
                      r = Reason("node %s is not supported in VAST %s", nodes[i].Name, "",
                                 DeclaredVersion(raw))
                /\ IAB(i).Status = StatusFail <=>
                      (Recognized(i) /\ ~InVersions(SpecOf(i).Versions, DeclaredVersion(raw)))

\* a recognized element below a permitting ancestor, not supported in the
\* declared version, has a failed bucket
C5_Witness ==
    /\ Succeeded
    /\ cfg.catalog = "default"
    /\ \E i \in TreeNodes \ {root} :
          /\ UnderAllowUnknown(i) /\ Recognized(i)
          /\ InVersions(SpecOf(root).Versions, DeclaredVersion(raw))
          /\ IAB(i).Status = StatusFail

(***************************************************************************)
(* C6.  As the claim states it: for every node with a spec, each required  *)
(* attribute the node does not carry yields a synthetic failing attribute  *)
(* entry named after it, and the node's spec-compliance bucket fails.      *)
(***************************************************************************)
MissingOf(i) ==
    {a \in DOMAIN SpecOf(i).Attributes :
        /\ SpecOf(i).Attributes[a].Required
        /\ \A k \in 1..Len(nodes[i].Attrs) : nodes[i].Attrs[k].Name # a}

SyntheticEntry(i, a) ==
    AttributeResult(a, SpecOf(i).Attributes[a].Versions, StatusFail,
                    <<Reason("missing required attribute %s", a, "", <<>>)>>)

MissingReported(i) ==
    \A a \in MissingOf(i) :
        /\ Cardinality({k \in 1..Len(IAB(i).Attributes) : IAB(i).Attributes[k].Name = a}) = 1
        /\ SyntheticEntry(i, a) \in SetOf(IAB(i).Attributes)
        /\ Reason("missing required attribute %s", a, "", <<>>) \in Reasons(i, IABAnalysisCategory)
        /\ IAB(i).Status = StatusFail

C6_EveryNodeWithSpec ==
    Succeeded => \A i \in TreeNodes : Recognized(i) => MissingReported(i)

(***************************************************************************)
(* C6, amended.  For every node with a spec that is not below a node whose *)
(* spec allows unknown children, each required attribute the node does not *)
(* carry yields a synthetic failing attribute entry named after it, and    *)
(* the node's spec-compliance bucket fails.                                *)
(***************************************************************************)
C6_OutsidePermittedSubtrees ==
    Succeeded =>
        \A i \in TreeNodes : (Recognized(i) /\ ~UnderAllowUnknown(i)) => MissingReported(i)

\* an element misses two required attributes and is otherwise in order
C6_Witness ==
    /\ Succeeded
    /\ \E i \in TreeNodes :
          /\ Recognized(i) /\ ~UnderAllowUnknown(i)
          /\ Cardinality(MissingOf(i)) = 2
          /\ Len(IAB(i).Attributes) = Len(nodes[i].Attrs) + 2

(***************************************************************************)
(* The hook calls of a walk, as contributions to the buckets.              *)
(***************************************************************************)
\* what a logged hook call hands to the merge: an execution error is a failed
\* contribution to the custom bucket, a nil analysis is none, and an analysis
\* without a category goes to the custom bucket
Effective(e) ==
    IF e.err # ""
    THEN NodeAnalysisResult(CustomAnalysisCategory, StatusFail,
                            <<Reason(e.err, "", "", <<>>)>>, <<>>)
    ELSE IF e.analysis = NilAnalysis THEN NilAnalysis
    ELSE IF e.analysis.Category = "" THEN [e.analysis EXCEPT !.Category = CustomAnalysisCategory]
    ELSE e.analysis

Contributions(i, c) ==
    SelectSeq(log, LAMBDA e : e.node = i /\ Effective(e) # NilAnalysis /\ Effective(e).Category = c)

CallsOn(i, registry) == SelectSeq(log, LAMBDA e : e.node = i /\ e.registry = registry)
HooksOf(q) == [k \in 1..Len(q) |-> q[k].hook]

RECURSIVE AllAttributes(_)
AllAttributes(q) ==
    IF q = <<>> THEN <<>> ELSE Effective(Head(q)).Attributes \o AllAttributes(Tail(q))

\* the categories the registered hooks write
HookCategories == {CustomAnalysisCategory, "vendor.analysis"}

(***************************************************************************)
(* C7.  Within one validation pass a bucket that has failed stays failed:  *)
(* no later check, no merge of a later hook result and not the             *)
(* unsupported-version step changes its status again.                      *)
(***************************************************************************)
FailedStaysFailed ==
    \A i \in DOMAIN results :
        \A c \in DOMAIN results[i].Analyses :
            results[i].Analyses[c].Status = StatusFail =>
                /\ i \in DOMAIN results'
                /\ c \in DOMAIN results'[i].Analyses
                /\ results'[i].Analyses[c].Status = StatusFail

\* every failing check of the walk leaves a reason in the spec-compliance
\* bucket: a bucket with a reason that is not failed would have been set back
ChecksLeaveFailed ==
    \A i \in DOMAIN results : IAB(i).Reasons # <<>> => IAB(i).Status = StatusFail

C7_FailureIsSticky == []ChecksLeaveFailed /\ [][FailedStaysFailed]_vars

\* a failed bucket received a later contribution that did not fail, and is
\* still failed when the walk is over
C7_Witness ==
    /\ Succeeded
    /\ \E j, k \in 1..Len(log) :
          /\ j < k /\ log[j].node = log[k].node
          /\ Effective(log[j]) # NilAnalysis /\ Effective(log[k]) # NilAnalysis
          /\ Effective(log[j]).Category = Effective(log[k]).Category
          /\ Effective(log[j]).Status = StatusFail
          /\ Effective(log[k]).Status = StatusPass
          /\ results[log[j].node].Analyses[Effective(log[j]).Category].Status = StatusFail

(***************************************************************************)
(* C8.  Hook results landing in the same category of a node are merged     *)
(* into one bucket: its attribute entries are those of all contributions,  *)
(* in the order of the calls, and it is failed exactly when some           *)
(* contribution failed; a category without contribution has no bucket.     *)
(* Every registered hook is called once for each matching node.            *)
(***************************************************************************)
C8_ContributionsMerged ==
    /\ \A i \in DOMAIN results :
          /\ DOMAIN results[i].Analyses \subseteq {IABAnalysisCategory} \cup HookCategories
          /\ \A c \in HookCategories :
                LET q == Contributions(i, c) IN
                IF q = <<>> THEN c \notin DOMAIN results[i].Analyses
                ELSE /\ c \in DOMAIN results[i].Analyses
                     /\ results[i].Analyses[c].Category = c
                     /\ results[i].Analyses[c].Attributes = AllAttributes(q)
                     /\ results[i].Analyses[c].Status = StatusFail
                           <=> \E k \in 1..Len(q) : Effective(q[k]).Status = StatusFail
    /\ (Succeeded /\ opts = {}) =>
          \A i \in TreeNodes :
              /\ HooksOf(CallsOn(i, "custom")) = customValidators[ToLower(nodes[i].Name)]
              /\ HooksOf(CallsOn(i, "http")) = httpValidators[ToLower(nodes[i].Name)]

\* two caller hooks contributed to the custom bucket of one node, one of them
\* without naming a category, one of them failing
C8_Witness ==
    /\ Succeeded
    /\ \E i \in TreeNodes :
          LET q == Contributions(i, CustomAnalysisCategory) IN
          /\ \E j, k \in 1..Len(q) :
                /\ j # k /\ q[j].hook # BuiltInHTTPHook /\ q[k].hook # BuiltInHTTPHook
                /\ q[j].analysis.Category = ""
                /\ Effective(q[k]).Status = StatusFail
          /\ Len(results[i].Analyses[CustomAnalysisCategory].Attributes) >= 2

\* one caller hook, one matching node: one contribution, in its category
C8_WitnessOne ==
    /\ Succeeded /\ Registered = 1
    /\ Cardinality({i \in TreeNodes : nodes[i].Name = "MediaFile"}) = 1
    /\ \E i \in TreeNodes :
          /\ Len(Contributions(i, "vendor.analysis")) = 1
          /\ results[i].Analyses["vendor.analysis"].Status = StatusInfo

(***************************************************************************)
(* C9.  A network hook that returns an execution error does not make       *)
(* Validate fail: the error is recorded as a failed result in the node's   *)
(* custom bucket, with the error text as reason, and the walk goes on:     *)
(* Validate returns a full result, and the hooks of every later node have  *)
(* been called.                                                            *)
(***************************************************************************)
C9_HookErrorIsLocal ==
    /\ \A k \in 1..Len(log) :
          log[k].err # "" =>
              /\ CustomAnalysisCategory \in DOMAIN results[log[k].node].Analyses
              /\ results[log[k].node].Analyses[CustomAnalysisCategory].Status = StatusFail
              /\ Reason(log[k].err, "", "", <<>>)
                    \in Reasons(log[k].node, CustomAnalysisCategory)
    /\ (Done /\ \E k \in 1..Len(log) : log[k].err # "") =>
          /\ ret.err = "" /\ ret.hasResult /\ FullResult
          /\ \A i \in TreeNodes :
                HooksOf(CallsOn(i, "http")) = httpValidators[ToLower(nodes[i].Name)]

\* a hook returned an error on one node, and hooks were called after it on
\* the same node and on a later node
C9_Witness ==
    /\ Succeeded
    /\ \E j, k, l \in 1..Len(log) :
          /\ j < k /\ k < l
          /\ log[j].err # ""
          /\ log[k].node = log[j].node
          /\ log[l].node > log[j].node

(***************************************************************************)
(* C10.  The options disable hooks for one call, in any order and          *)
(* combination: with DisableCustomValidators no hook of either registry is *)
(* called, with DisableHTTPValidators no network hook is called while the  *)
(* synchronous hooks are; and no step of Validate changes a registry.      *)
(***************************************************************************)
OptionsObeyed ==
    /\ "DisableCustomValidators" \in opts => log = <<>>
    /\ "DisableHTTPValidators" \in opts => \A k \in 1..Len(log) : log[k].registry # "http"
    /\ (Succeeded /\ "DisableCustomValidators" \notin opts) =>
          \A i \in TreeNodes :
              HooksOf(CallsOn(i, "custom")) = customValidators[ToLower(nodes[i].Name)]
    /\ (Succeeded /\ opts = {}) =>
          \A i \in TreeNodes :
              HooksOf(CallsOn(i, "http")) = httpValidators[ToLower(nodes[i].Name)]

C10_OptionsDisableHooks ==
    /\ []OptionsObeyed
    /\ [][pc' # "idle" => UNCHANGED registries]_vars

\* hooks of both registries are registered; a call with DisableHTTPValidators
\* ran the synchronous one only
C10_Witness ==
    /\ Succeeded
    /\ opts = {"DisableHTTPValidators"}
    /\ Len(httpValidators["mediafile"]) = 2
    /\ log # <<>>
    /\ \A k \in 1..Len(log) : log[k].registry = "custom"

\* hooks of both registries are registered; a call with both options, the
\* network one first, called none
C10_WitnessBoth ==
    /\ Succeeded
    /\ opts = {"DisableHTTPValidators", "DisableCustomValidators"}
    /\ Len(httpValidators["mediafile"]) = 2 /\ Len(customValidators["mediafile"]) = 1
    /\ \E i \in TreeNodes : nodes[i].Name = "MediaFile"
    /\ log = <<>>

(***************************************************************************)
(* C16.  The result tree mirrors the parsed tree.                          *)
(***************************************************************************)
\* the nodes of the parsed tree, those under the root the parser returns, in
\* document order: the parser numbers the nodes by their start tags, so a
\* node comes after its parent and after the whole subtree of every earlier
\* sibling
DocumentOrder == SelectSeq([i \in 1..Len(nodes) |-> i], LAMBDA i : i \in TreeNodes)
IsPrefix(p, q) == Len(p) <= Len(q) /\ p = SubSeq(q, 1, Len(p))
FailingNodes == {i \in DOMAIN results : IAB(i).Status = StatusFail}

\* C16: every parsed node is visited exactly once, top-down, depth-first in
\* document order, and produces exactly one NodeResult with the node's name
\* whose Children are the results of the node's children, in their order,
\* whatever number of nodes fail.
C16_ResultMirrorsTree ==
    /\ IsPrefix(visits, DocumentOrder)
    /\ DOMAIN results = SetOf(visits)
    /\ \A i \in DOMAIN results :
          /\ results[i].Node = nodes[i].Name
          /\ nodes[i].Parent # 0 => nodes[i].Parent \in DOMAIN results
          /\ IsPrefix(results[i].Children, ChildrenOf(nodes, i))
    /\ Succeeded =>
          /\ visits = DocumentOrder
          /\ \A i \in TreeNodes : results[i].Children = ChildrenOf(nodes, i)

\* a document of three nodes, two of them siblings, is walked to its end
\* though its first two nodes fail
C16_Witness ==
    /\ Succeeded
    /\ Len(nodes) = 3
    /\ Len(ChildrenOf(nodes, root)) = 2
    /\ {1, 2} \subseteq FailingNodes

\* a chain of three nodes is walked to its end though every node fails
C16_WitnessDeep ==
    /\ Succeeded
    /\ Len(nodes) = 3
    /\ ChildrenOf(nodes, 2) = <<3>>
    /\ FailingNodes = {1, 2, 3}

(***************************************************************************)
(* C19.  Fatal errors abort before any traversal.                          *)
(***************************************************************************)
\* the errors of a call: of the input, of the markup, of the root, of the
\* version, of the catalog
CallErrors ==
    {errEmptyXML, errParseXML, "validator: unexpected closing tag",
     ErrInvalidRoot, ErrMissingVersion, errCatalogMissingRoot}

\* C19: whenever Validate returns an error of the call (empty input,
\* malformed markup, root name mismatch, missing or blank version, catalog
\* without the root spec), no hook was called, no request was sent and no
\* NodeResult was produced during that call.
C19_FatalBeforeTraversal ==
    (Done /\ ret.err # "") =>
        /\ FatalInput
        /\ ret.err \in CallErrors
        /\ ~ret.hasResult
        /\ visits = <<>>
        /\ lookups = <<>>
        /\ log = <<>>
        /\ results = NoEntries

\* a call fails on a document whose root is a media file, while hooks are
\* registered for media files
CarriesMediaFile == \E i \in 1..Len(raw) : raw[i].type = "start" /\ raw[i].name = "MediaFile"
C19_Witness ==
    /\ Done
    /\ ret.err = ErrInvalidRoot
    /\ CarriesMediaFile
    /\ Len(customValidators[ToLower("MediaFile")]) > 0
    /\ cfg.runCustom /\ cfg.runHTTP

\* a call fails for the catalog, for the version and for the markup on
\* documents that carry a media file
C19_WitnessCatalog ==
    Done /\ ret.err = errCatalogMissingRoot /\ CarriesMediaFile /\ cfg.runHTTP
C19_WitnessVersion ==
    Done /\ ret.err = ErrMissingVersion /\ CarriesMediaFile /\ cfg.runHTTP
C19_WitnessMarkup ==
    Done /\ ret.err = errParseXML /\ CarriesMediaFile /\ cfg.runHTTP

(***************************************************************************)
(* C20.  The order of the hook calls of one call of Validate.              *)
(***************************************************************************)
\* the calls due on node i: the synchronous hooks of its name in
\* registration order, then the network hooks of its name in registration
\* order, each kind unless the call disabled it
CallsDue(i) ==
    LET key == ToLower(nodes[i].Name)
        custom == IF cfg.runCustom THEN customValidators[key] ELSE <<>>
        http == IF cfg.runHTTP THEN httpValidators[key] ELSE <<>>
    IN [k \in 1..Len(custom) |-> <<i, "custom", custom[k]>>]
         \o [k \in 1..Len(http) |-> <<i, "http", http[k]>>]

RECURSIVE CallsDueOn(_)
CallsDueOn(order) ==
    IF order = <<>> THEN <<>> ELSE CallsDue(Head(order)) \o CallsDueOn(Tail(order))

CallsMade == [k \in 1..Len(log) |-> <<log[k].node, log[k].registry, log[k].hook>>]

\* the registries do not change while the call runs: the calls made so far
\* are the first of the calls due, on nodes whose checks were made
HookOrderKept ==
    /\ IsPrefix(CallsMade, CallsDueOn(DocumentOrder))
    /\ \A k \in 1..Len(log) :
          /\ log[k].node \in DOMAIN results
          /\ IABAnalysisCategory \in DOMAIN results[log[k].node].Analyses
    /\ Succeeded => CallsMade = CallsDueOn(DocumentOrder)

\* a call that returned no result and no error leaves the results as they are
NilContributesNothing ==
    (Len(log') = Len(log) + 1 /\ log'[Len(log')].analysis = NilAnalysis
        /\ log'[Len(log')].err = "")
      => results' = results

\* C20: nodes are taken in document order; on each node, after its checks,
\* the synchronous hooks of its name run in registration order, then the
\* network hooks of its name in registration order, all before any hook of
\* its children; every registered hook runs on every visit of a node of its
\* name, and a hook that returns no result contributes nothing.
C20_HookOrder == []HookOrderKept /\ [][NilContributesNothing]_vars

\* a media file in a media file: a synchronous hook, the built-in probe and
\* a caller's network hook ran on the outer one, then on the inner one
C20_Witness ==
    /\ Succeeded
    /\ Len(nodes) = 3
    /\ nodes[3].Parent = 2
    /\ Len(customValidators[ToLower("MediaFile")]) = 1
    /\ Len(httpValidators[ToLower("MediaFile")]) = 2
    /\ Len(log) = 6

\* two synchronous hooks, the first returning no result, ran on two sibling
\* media files
C20_WitnessNil ==
    /\ Succeeded
    /\ Len(nodes) = 3
    /\ nodes[3].Parent = 1
    /\ Len(customValidators[ToLower("MediaFile")]) = 2
    /\ customValidators[ToLower("MediaFile")][1] = "syncNil"
    /\ Len(log) = 6

(***************************************************************************)
(* C13, C14.  The built-in asset probe.                                    *)
(***************************************************************************)
\* the calls of the built-in hook that returned
ProbeCalls == {k \in 1..Len(log) : log[k].hook = BuiltInHTTPHook}
\* the asset URL the call of entry e probes, and whether it can be probed
ProbeTarget(e) == normalizeProbeURL(TrimSpace(nodes[e.node].Content))
Probeable(e) == TrimSpace(nodes[e.node].Content) # <<>> /\ ProbeTarget(e).err = ""
\* what the caller of a request sees of its answer: a server that does not
\* answer within the deadline is a transport error
Seen(answer) ==
    IF answer.err = NoAnswer THEN Response("context deadline exceeded", 0, <<>>) ELSE answer
HeadAnswered(e) == e.net.head.err = ""
HeadNotAllowed(e) == HeadAnswered(e) /\ e.net.head.StatusCode = 405
\* the response the probe ends with
FinalResponse(e) == IF Len(e.requests) = 2 THEN Seen(e.net.get) ELSE Seen(e.net.head)
FailsWith(e, msg) ==
    /\ e.analysis.Status = StatusFail
    /\ Len(e.analysis.Reasons) = 1
    /\ e.analysis.Reasons[1].msg = msg

ProbeProtocol(e) ==
    /\ Len(e.requests) <= 2
    /\ e.requests # <<>> <=> Probeable(e)
    /\ e.requests # <<>> => e.requests[1] = Request("HEAD", ProbeTarget(e).url, "")
    /\ Len(e.requests) = 2 <=> (Probeable(e) /\ HeadNotAllowed(e))
    /\ Len(e.requests) = 2 => e.requests[2] = Request("GET", ProbeTarget(e).url, "bytes=0-0")
    /\ (Probeable(e) /\ ~HeadAnswered(e)) =>
          /\ FailsWith(e, "media file request failed: %v")
          /\ e.analysis.Reasons[1].a = Seen(e.net.head).err
    /\ (Probeable(e) /\ HeadAnswered(e) /\ ~HeadNotAllowed(e)
           /\ e.net.head.StatusCode >= 400) =>
          /\ FailsWith(e, "media file responded with HTTP %d")
          /\ e.analysis.Reasons[1].v = Itoa(e.net.head.StatusCode)
    /\ (Probeable(e) /\ HeadAnswered(e) /\ ~HeadNotAllowed(e)
           /\ e.net.head.StatusCode < 400 /\ e.net.head.ContentType = <<>>) =>
          e.analysis.Status = StatusPass
    /\ (Probeable(e) /\ HeadNotAllowed(e) /\ e.net.get.err = ""
           /\ e.net.get.StatusCode < 400 /\ e.net.get.ContentType = <<>>) =>
          e.analysis.Status = StatusPass

\* C13: the probe sends HEAD first; it sends a ranged GET (bytes=0-0) to the
\* same normalized URL if and only if HEAD was answered, without transport
\* error, with 405; any other answer to HEAD is the outcome of the probe, a
\* transport error of HEAD ends the probe, at most two requests are sent, and
\* 405 to HEAD with success to GET makes the probe succeed.
C13_HeadThenRangedGet == \A k \in ProbeCalls : ProbeProtocol(log[k])

\* HEAD was answered with 405 and the ranged GET with success: the hook
\* passes
C13_Witness ==
    \E k \in ProbeCalls :
        /\ Len(log[k].requests) = 2
        /\ log[k].net.get.StatusCode = 206
        /\ log[k].analysis.Status = StatusPass
\* HEAD was answered with 404, HEAD met a transport error: one request
C13_WitnessNotFound ==
    \E k \in ProbeCalls :
        /\ Len(log[k].requests) = 1
        /\ log[k].net.head.StatusCode = 404
        /\ log[k].analysis.Status = StatusFail
C13_WitnessTransport ==
    \E k \in ProbeCalls :
        /\ Len(log[k].requests) = 1
        /\ log[k].net.head.err = "connection refused"
        /\ log[k].analysis.Status = StatusFail

\* the declared type of the node of entry e, lower-cased and trimmed; the
\* Content-Type of a response, lower-cased, without the parameters that
\* follow the first ";", trimmed
DeclaredType(e) == ToLowerStr(TrimSpace(attrValue(nodes[e.node].Attrs, "type").value))
Semicolons(s) == {i \in 1..Len(s) : s[i] = ";"}
BeforeParameters(s) ==
    IF Semicolons(s) = {} THEN s
    ELSE SubSeq(s, 1, (CHOOSE i \in Semicolons(s) : \A j \in Semicolons(s) : i <= j) - 1)
MediaType(resp) == TrimSpace(BeforeParameters(ToLowerStr(TrimSpace(resp.ContentType))))
TypeMismatch(e) ==
    /\ DeclaredType(e) # <<>>
    /\ MediaType(FinalResponse(e)) # <<>>
    /\ MediaType(FinalResponse(e)) # DeclaredType(e)

ProbeDecision(e) ==
    /\ e.err = ""
    /\ e.analysis.Category = CustomAnalysisCategory
    /\ IF FinalResponse(e).StatusCode >= 400
       THEN /\ FailsWith(e, "media file responded with HTTP %d")
            /\ e.analysis.Reasons[1].v = Itoa(FinalResponse(e).StatusCode)
       ELSE IF TypeMismatch(e)
       THEN FailsWith(e, "content type mismatch: expected %s, got %s")
       ELSE e.analysis.Status = StatusPass /\ e.analysis.Reasons = <<>>

\* C14: given the final response of the probe, the built-in hook fails
\* citing the status when it is 400 or more; otherwise it fails with a type
\* mismatch if and only if the declared type is non-empty after trimming and
\* the Content-Type (lower-cased, parameters stripped) is non-empty and
\* differs from the lower-cased declared type; otherwise it passes.  A
\* missing Content-Type or declared type is never penalized.
C14_DecisionFromResponse ==
    \A k \in ProbeCalls :
        (log[k].requests # <<>> /\ FinalResponse(log[k]).err = "") => ProbeDecision(log[k])

\* a Content-Type with parameters that differs from the declared type fails
\* the hook; one that differs by case and parameters only passes it
C14_Witness ==
    \E k \in ProbeCalls :
        /\ log[k].net.head = Response("", 200, <<"x", ";", "m">>)
        /\ DeclaredType(log[k]) = <<"m">>
        /\ log[k].analysis.Status = StatusFail
C14_WitnessSameType ==
    \E k \in ProbeCalls :
        /\ log[k].net.head = Response("", 200, <<"M", ";", "x">>)
        /\ DeclaredType(log[k]) = <<"m">>
        /\ log[k].analysis.Status = StatusPass
\* no Content-Type, no declared type: the hook passes
C14_WitnessNoContentType ==
    \E k \in ProbeCalls :
        /\ log[k].net.head = Response("", 399, <<";", "m">>)
        /\ DeclaredType(log[k]) = <<"m">>
        /\ log[k].analysis.Status = StatusPass
C14_WitnessNoDeclaredType ==
    \E k \in ProbeCalls :
        /\ log[k].net.head = Response("", 200, <<"x">>)
        /\ DeclaredType(log[k]) = <<>>
        /\ attrValue(nodes[log[k].node].Attrs, "type").ok
        /\ log[k].analysis.Status = StatusPass

(***************************************************************************)
(* C18.  The deadline of the network hooks.                                *)
(***************************************************************************)
NetworkCalls == {k \in 1..Len(log) : log[k].registry = "http"}
ClientOnly == "WithHTTPValidationOptions(Client: c)"
TimeoutOnly == "WithHTTPValidationOptions(Timeout: 5s)"

\* C18: every call of a network hook is made under a context with a bounded
\* timeout, the duration the caller configured or the default of 2 seconds
\* when the caller configured none, also when the caller's options set only
\* the client; so no call of a network hook waits for ever.
C18_BoundedTimeout ==
    /\ pc # "blocked"
    /\ \A k \in NetworkCalls :
          /\ log[k].deadline # NoDeadline
          /\ TimeoutOnly \notin opts => log[k].deadline = DefaultTimeout
          /\ opts = {TimeoutOnly} => log[k].deadline = 5

\* C18, as the code has it: the deadline is the Timeout of the options given
\* last, the default of 2 seconds when none were given and none when that
\* Timeout is zero; only a call without deadline waits for ever.
C18_TimeoutOfLastOptions ==
    /\ pc = "blocked" => cfg.timeout = 0
    /\ \A k \in NetworkCalls :
          /\ log[k].deadline = cfg.timeout
          /\ opts = {} => log[k].deadline = DefaultTimeout
          /\ opts = {TimeoutOnly} => log[k].deadline = 5
          /\ opts = {ClientOnly} => log[k].deadline = NoDeadline

\* the caller set only the client: the probe ran without deadline, and a
\* server that does not answer keeps Validate from returning
C18_Witness ==
    /\ opts = {ClientOnly}
    /\ \E k \in NetworkCalls : log[k].deadline = NoDeadline
C18_WitnessBlocked ==
    pc = "blocked" /\ opts = {ClientOnly}
\* under the default deadline the same server is a transport error
C18_WitnessDeadline ==
    \E k \in ProbeCalls :
        /\ log[k].net.head.err = NoAnswer
        /\ log[k].deadline = DefaultTimeout
        /\ log[k].analysis.Reasons[1].a = "context deadline exceeded"

(***************************************************************************)
(* C17.  The category summaries.                                           *)
(***************************************************************************)
Carriers(c) == {i \in TreeNodes : c \in DOMAIN results[i].Analyses}
Failing(c) == {i \in Carriers(c) : results[i].Analyses[c].Status = StatusFail}
CarriedCategories == UNION {DOMAIN results[i].Analyses : i \in TreeNodes}

\* C17: for every category summary of a result, TotalNodes is the number of
\* nodes carrying a bucket of the category, FailingNodes the number of those
\* whose bucket is fail, FailingNodes <= TotalNodes, Status is fail if and
\* only if FailingNodes > 0, and at most 5 reasons are kept; a category has
\* a summary if and only if some node carries it, so the spec-compliance
\* summary counts every node of the document.
C17_CategorySummaries ==
    Succeeded =>
        /\ DOMAIN ret.Summaries = CarriedCategories
        /\ \A c \in DOMAIN ret.Summaries :
              LET summary == ret.Summaries[c]
              IN /\ summary.Category = c
                 /\ summary.TotalNodes = Cardinality(Carriers(c))
                 /\ summary.FailingNodes = Cardinality(Failing(c))
                 /\ summary.FailingNodes <= summary.TotalNodes
                 /\ summary.Status = StatusFail <=> summary.FailingNodes > 0
                 /\ summary.Status \in {StatusPass, StatusFail}
                 /\ Len(summary.Reasons) <= 5
        /\ ret.Summaries[IABAnalysisCategory].TotalNodes = Cardinality(TreeNodes)

\* the spec-compliance buckets of three nodes hold more than five reasons,
\* and a node that passes follows one that fails
C17_Witness ==
    /\ Succeeded
    /\ Len(nodes) = 3
    /\ Len(ret.Summaries[IABAnalysisCategory].Reasons) = 5
    /\ Len(IAB(1).Reasons) + Len(IAB(2).Reasons) + Len(IAB(3).Reasons) > 5
C17_WitnessMixed ==
    /\ Succeeded
    /\ Len(nodes) = 3
    /\ IAB(2).Status = StatusFail
    /\ IAB(3).Status = StatusPass
    /\ ret.Summaries[IABAnalysisCategory].FailingNodes = 1
\* the custom bucket is carried by the media file alone
C17_WitnessCustom ==
    /\ Succeeded
    /\ CustomAnalysisCategory \in DOMAIN ret.Summaries
    /\ ret.Summaries[CustomAnalysisCategory].TotalNodes = 1
    /\ ret.Summaries[IABAnalysisCategory].TotalNodes = 2

(***************************************************************************)
(* C15.  The same document validated twice.                                *)
(***************************************************************************)
BothReturned == Done /\ Returned(prev)

\* C15: validating the same document twice with the same configuration, the
\* same registered hooks and unchanged remote state yields identical
\* results: same tree, same statuses, same reasons in the same order, same
\* attribute results in the same order (the synthetic entries of missing
\* required attributes included), same summaries.
C15_Idempotent ==
    BothReturned => (prev.ret = ret /\ prev.results = results)

\* what is the same in both results whatever order the required attributes
\* are visited in
Unordered(analysis) ==
    [Category |-> analysis.Category, Status |-> analysis.Status,
     Reasons |-> SetOf(analysis.Reasons), Attributes |-> SetOf(analysis.Attributes)]
UnorderedResult(res) ==
    [i \in DOMAIN res |->
        [Node |-> res[i].Node, VersionSupport |-> res[i].VersionSupport,
         Children |-> res[i].Children,
         Analyses |-> [c \in DOMAIN res[i].Analyses |-> Unordered(res[i].Analyses[c])]]]
Counts(summaries) ==
    [c \in DOMAIN summaries |->
        [summaries[c] EXCEPT !.Reasons = Len(summaries[c].Reasons)]]

\* C15, as the code has it: both calls return the same error, version and
\* tree, and for every node the same statuses, the same set of reasons and
\* the same set of attribute results; the summaries agree on the counts and
\* the status.  The order of the synthetic entries, of their reasons and the
\* reasons sampled may differ.
C15_SameButForOrder ==
    BothReturned =>
        /\ prev.ret.err = ret.err
        /\ prev.ret.hasResult = ret.hasResult
        /\ prev.ret.Version = ret.Version
        /\ prev.ret.Root = ret.Root
        /\ Counts(prev.ret.Summaries) = Counts(ret.Summaries)
        /\ UnorderedResult(prev.results) = UnorderedResult(results)
        /\ [k \in 1..Len(prev.log) |-> prev.log[k].analysis]
             = [k \in 1..Len(log) |-> log[k].analysis]

\* two calls returned a result for a media file without its required
\* attributes, and the synthetic entries come in another order
C15_Witness ==
    /\ BothReturned
    /\ ret.hasResult
    /\ prev.results # results
    /\ UnorderedResult(prev.results) = UnorderedResult(results)
\* two calls returned the same result with hooks registered
C15_WitnessSame ==
    /\ BothReturned
    /\ ret.hasResult
    /\ Len(log) = 3
    /\ prev.results = results /\ prev.ret = ret

(***************************************************************************)
(* C11.  Registration under concurrency.                                   *)
(***************************************************************************)
\* the hooks init() registered for key k of a registry
BuiltIn(registry, k) ==
    IF registry = "http" /\ k = ToLower("MediaFile") THEN <<BuiltInHTTPHook>> ELSE <<>>
\* the non-nil hooks goroutine g registered for key k of a registry by the
\* calls that returned, in the order of its calls
RECURSIVE HooksIn(_)
HooksIn(calls) == IF calls = <<>> THEN <<>> ELSE <<Head(calls).hook>> \o HooksIn(Tail(calls))
MadeFor(g, registry, k) ==
    HooksIn(SelectSeq(goroutines[g].made,
                      LAMBDA c : c.registry = registry /\ ToLower(c.nodeName) = k
                                   /\ c.hook # NilHook))
\* list holds exactly the elements of the sequences, each once, those of one
\* sequence in their order
RECURSIVE IsShuffle(_, _)
IsShuffle(list, seqs) ==
    IF list = <<>> THEN \A g \in DOMAIN seqs : seqs[g] = <<>>
    ELSE \E g \in DOMAIN seqs :
            /\ seqs[g] # <<>>
            /\ Head(seqs[g]) = Head(list)
            /\ IsShuffle(Tail(list), [seqs EXCEPT ![g] = Tail(@)])
AllReturned ==
    /\ DOMAIN goroutines = Goroutines
    /\ \A g \in Goroutines : goroutines[g].calls = <<>>
NilRegistered == \E g \in DOMAIN goroutines : \E i \in 1..Len(goroutines[g].made) :
                    goroutines[g].made[i].hook = NilHook

\* C11: whatever the interleaving of the calls of RegisterCustomValidator and
\* RegisterHTTPValidator with each other and with the lookups of a call of
\* Validate in flight, no registration is lost or duplicated: the list of
\* each name holds, after the built-in hook, exactly the non-nil hooks the
\* returned calls registered for it, each once, those of one caller in the
\* order of its calls; a nil hook changes nothing.
C11_RegistrationsKept ==
    \A registry \in {"custom", "http"}, k \in RegistryKeys :
        LET list == store(registry)[k]
            first == BuiltIn(registry, k)
        IN /\ IsPrefix(first, list)
           /\ IsShuffle(SubSeq(list, Len(first) + 1, Len(list)),
                        [g \in DOMAIN goroutines |-> MadeFor(g, registry, k)])

\* both goroutines made all their calls while Validate walked: the list of
\* the media-file key holds three hooks, one of them twice, and a nil hook
\* was registered
C11_Witness ==
    /\ AllReturned
    /\ pc = "walk"
    /\ Len(customValidators[ToLower("MediaFile")]) = 3
    /\ NilRegistered
    /\ lookups # <<>>
\* a goroutine waits for the lock another one holds
C11_WitnessContended ==
    \E g \in DOMAIN goroutines, h \in DOMAIN goroutines :
        /\ goroutines[g].pc = "loaded"
        /\ goroutines[h].pc = "ready" /\ goroutines[h].calls # <<>>
        /\ Head(goroutines[h].calls).registry = Head(goroutines[g].calls).registry
        /\ Head(goroutines[h].calls).hook # NilHook

(***************************************************************************)
(* C21.  Hook contributions are independent of the spec-compliance         *)
(* category.                                                               *)
(***************************************************************************)
\* the hooks of a node are running: the steps taken are the calls of the
\* loops of applyCustomValidators and applyHTTPValidators, the requests of a
\* network hook included
HooksRunning == pc \in {"walk", "head", "get"} /\ phase \in {"custom", "http"}

\* a hook call was merged into the spec-compliance bucket of its node
NamesCompliance(e) == Effective(e) # NilAnalysis /\ Effective(e).Category = IABAnalysisCategory

\* C21, as the claim states it: whatever the hooks of a node return, no step
\* of the two hook loops changes the spec-compliance bucket of any node, so
\* that after the loops the bucket is what the catalog-driven checks made it
C21_HooksLeaveCompliance ==
    [][HooksRunning =>
          \A i \in DOMAIN results :
              results'[i].Analyses[IABAnalysisCategory] = results[i].Analyses[IABAnalysisCategory]]_vars

\* what the code keeps: a step of the hook loops changes the spec-compliance
\* bucket only by merging a result that names that category
C21_UnlessNamed ==
    [][(HooksRunning /\ \E i \in DOMAIN results :
            results'[i].Analyses[IABAnalysisCategory] # results[i].Analyses[IABAnalysisCategory])
        => /\ Len(log') = Len(log) + 1
           /\ NamesCompliance(log'[Len(log')])]_vars

\* a valid element, its spec-compliance bucket failed by a hook and carrying
\* the attribute entries of two hooks
C21_Witness ==
    /\ Succeeded
    /\ \E i \in TreeNodes :
          /\ ValidNode(i, DeclaredVersion(raw))
          /\ IAB(i).Status = StatusFail
          /\ Len(IAB(i).Attributes) = Len(nodes[i].Attrs) + 2

(***************************************************************************)
(* C22.  The structural checks of a recognized node accumulate.            *)
(***************************************************************************)
\* the reason of the version check of node i, when it fails
VersionFailure(i, v) ==
    IF ~InVersions(SpecOf(i).Versions, v)
    THEN <<Reason("node %s is not supported in VAST %s", nodes[i].Name, "", v)>>
    ELSE <<>>

\* the parent-child check applies to node i: its parent has a spec and
\* unknown children are not allowed where the node stands
ParentChecked(i) == i # root /\ Recognized(nodes[i].Parent) /\ ~UnderAllowUnknown(i)

\* the reason of the parent-child check of node i, when it applies and fails
ChildFailure(i, v) ==
    LET p == nodes[i].Parent IN
    IF ~ParentChecked(i) THEN <<>>
    ELSE IF nodes[i].Name \notin DOMAIN SpecOf(p).Children
    THEN <<Reason("node %s is not a valid child of %s", nodes[i].Name, nodes[p].Name, <<>>)>>
    ELSE IF ~InVersions(SpecOf(p).Children[nodes[i].Name].Versions, v)
    THEN <<Reason("node %s is not allowed for parent %s in VAST %s", nodes[i].Name,
                  nodes[p].Name, v)>>
    ELSE <<>>

\* the reasons of the attribute results of a bucket, entry after entry
RECURSIVE AttributeReasons(_)
AttributeReasons(attributes) ==
    IF attributes = <<>> THEN <<>>
    ELSE Head(attributes).Reasons \o AttributeReasons(Tail(attributes))

\* the reason of the unsupported-version step, recorded on the root only
RootFailure(i, v) ==
    IF i = root /\ ~InVersions(SpecOf(root).Versions, v)
    THEN <<Reason("%s: %s", ErrUnsupportedVersion, "", v)>>
    ELSE <<>>

\* C22: with no caller hook registered, the reasons of the spec-compliance
\* bucket of every recognized node are, in this order, one reason for the
\* version check when it fails, one reason for the parent-child check when
\* it applies and fails, the reasons of the attribute checks, and on the
\* root the unsupported-version reason; the bucket is failed when a check
\* failed; and outside allow-unknown subtrees the attribute checks have run
\* whatever the structural checks found.
C22_ChecksAccumulate ==
    Succeeded =>
        LET v == DeclaredVersion(raw) IN
        \A i \in TreeNodes :
            Recognized(i) =>
                /\ IAB(i).Reasons = VersionFailure(i, v) \o ChildFailure(i, v)
                                      \o AttributeReasons(IAB(i).Attributes) \o RootFailure(i, v)
                /\ (VersionFailure(i, v) \o ChildFailure(i, v) # <<>>) => IAB(i).Status = StatusFail
                /\ ~UnderAllowUnknown(i) =>
                      Len(IAB(i).Attributes) = Len(nodes[i].Attrs) + Cardinality(MissingOf(i))

\* an element fails the version check and the parent-child check, and one of
\* its attributes fails too: three reasons
C22_Witness ==
    /\ Succeeded
    /\ \E i \in TreeNodes :
          /\ Recognized(i)
          /\ Len(VersionFailure(i, DeclaredVersion(raw)) \o ChildFailure(i, DeclaredVersion(raw))) = 2
          /\ \E k \in 1..Len(IAB(i).Attributes) : IAB(i).Attributes[k].Status = StatusFail
          /\ Len(IAB(i).Reasons) = 3

\* an element of a version older than its spec, where its parent does not
\* declare it as a child: both reasons, as in the test of a verification
\* block placed in a 3.0 document
C22_WitnessNotAChild ==
    /\ Succeeded
    /\ InVersions(SpecOf(root).Versions, DeclaredVersion(raw))
    /\ \E i \in TreeNodes :
          /\ Recognized(i) /\ ParentChecked(i)
          /\ VersionFailure(i, DeclaredVersion(raw)) # <<>>
          /\ nodes[i].Name \notin DOMAIN SpecOf(nodes[i].Parent).Children
          /\ Len(IAB(i).Reasons) >= 2

(***************************************************************************)
(* C23.  The attribute results of a node with a spec.                      *)
(***************************************************************************)
\* the failures of an attribute of node i, in the order of the checks
NotInTable(i, a) == a.Name \notin DOMAIN SpecOf(i).Attributes
NotInVersion(i, a, v) == ~InVersions(SpecOf(i).Attributes[a.Name].Versions, v)
EmptyValue(i, a) == TrimSpace(a.Value) = <<>> /\ ~SpecOf(i).Attributes[a.Name].AllowEmpty

AttributeFailures(i, a, v) ==
    IF NotInTable(i, a)
    THEN <<Reason("attribute %s is not allowed on %s", a.Name, nodes[i].Name, <<>>)>>
    ELSE (IF NotInVersion(i, a, v)
          THEN <<Reason("attribute %s is not supported in VAST %s", a.Name, "", v)>> ELSE <<>>)
         \o (IF EmptyValue(i, a)
             THEN <<Reason("attribute %s cannot be empty", a.Name, "", <<>>)>> ELSE <<>>)

\* C23: for a node with a spec outside the allow-unknown subtrees, the
\* attribute results of the spec-compliance bucket begin with one result for
\* each attribute present, in document order and under its name; the result
\* is failed exactly when the attribute is not in the table of the spec, or
\* not valid for the declared version, or empty where its spec does not
\* allow it, and its reasons name every failure, the version failure and the
\* emptiness failure together; the results that follow stand for required
\* attributes the node does not carry; a failed result fails the bucket.
C23_AttributeResults ==
    Succeeded =>
        LET v == DeclaredVersion(raw) IN
        \A i \in TreeNodes :
            (Recognized(i) /\ ~UnderAllowUnknown(i)) =>
                LET attrs == nodes[i].Attrs
                    entries == IAB(i).Attributes
                IN /\ Len(entries) >= Len(attrs)
                   /\ \A k \in 1..Len(attrs) :
                         /\ entries[k].Name = attrs[k].Name
                         /\ entries[k].Reasons = AttributeFailures(i, attrs[k], v)
                         /\ entries[k].Status = StatusFail <=>
                               (NotInTable(i, attrs[k]) \/ NotInVersion(i, attrs[k], v)
                                  \/ EmptyValue(i, attrs[k]))
                         /\ entries[k].Status \in {StatusPass, StatusFail}
                   /\ \A k \in (Len(attrs) + 1)..Len(entries) : entries[k].Name \in MissingOf(i)
                   /\ (\E k \in 1..Len(entries) : entries[k].Status = StatusFail)
                         => IAB(i).Status = StatusFail

\* an attribute is not valid for the version and empty: its result carries
\* both reasons
C23_Witness ==
    /\ Succeeded
    /\ \E i \in TreeNodes :
          /\ Recognized(i) /\ ~UnderAllowUnknown(i)
          /\ \E k \in 1..Len(nodes[i].Attrs) :
                /\ ~NotInTable(i, nodes[i].Attrs[k])
                /\ NotInVersion(i, nodes[i].Attrs[k], DeclaredVersion(raw))
                /\ EmptyValue(i, nodes[i].Attrs[k])
                /\ Len(IAB(i).Attributes[k].Reasons) = 2

\* an element carries an attribute that passes and one that its spec does
\* not list: two results in the order of the attributes, the second failed
C23_WitnessOrder ==
    /\ Succeeded
    /\ \E i \in TreeNodes :
          /\ Recognized(i) /\ ~UnderAllowUnknown(i)
          /\ Len(nodes[i].Attrs) = 2
          /\ IAB(i).Attributes[1].Status = StatusPass
          /\ NotInTable(i, nodes[i].Attrs[2])
          /\ IAB(i).Attributes[2].Status = StatusFail

\* an empty value where the spec allows it: the result passes
C23_WitnessAllowEmpty ==
    /\ Succeeded
    /\ \E i \in TreeNodes :
          /\ Recognized(i) /\ ~UnderAllowUnknown(i)
          /\ \E k \in 1..Len(nodes[i].Attrs) :
                /\ ~NotInTable(i, nodes[i].Attrs[k])
                /\ TrimSpace(nodes[i].Attrs[k].Value) = <<>>
                /\ IAB(i).Attributes[k].Status = StatusPass

(***************************************************************************)
(* C24.  As the claim states it: the spec-compliance bucket of every node  *)
(* without spec holds one failing attribute result for each attribute the  *)
(* node carries, and is failed when the node carries an attribute.         *)
(***************************************************************************)
\* the result of an attribute that cannot be validated
Unvalidated(a) ==
    AttributeResult(a.Name, <<>>, StatusFail,
        <<Reason("node is not recognized; attribute cannot be validated", "", "", <<>>)>>)

AttributesAllFail(i) ==
    /\ IAB(i).Attributes = [k \in 1..Len(nodes[i].Attrs) |-> Unvalidated(nodes[i].Attrs[k])]
    /\ nodes[i].Attrs # <<>> => IAB(i).Status = StatusFail

C24_EveryNodeWithoutSpec ==
    Succeeded => \A i \in TreeNodes : ~Recognized(i) => AttributesAllFail(i)

(***************************************************************************)
(* C24, amended.  The spec-compliance bucket of every node without spec    *)
(* that is not below a node whose spec allows unknown children holds one   *)
(* failing attribute result for each attribute the node carries, and is    *)
(* failed when the node carries an attribute; below such a node the        *)
(* attributes are not examined.                                            *)
(***************************************************************************)
C24_OutsidePermittedSubtrees ==
    Succeeded =>
        \A i \in TreeNodes :
            ~Recognized(i) =>
                IF UnderAllowUnknown(i) THEN IAB(i).Attributes = <<>>
                ELSE AttributesAllFail(i)

\* an unknown element with an attribute where unknown children are not
\* allowed
C24_Witness ==
    /\ Succeeded
    /\ \E i \in TreeNodes :
          /\ ~Recognized(i) /\ ~UnderAllowUnknown(i)
          /\ nodes[i].Attrs # <<>>
          /\ Len(IAB(i).Attributes) = Len(nodes[i].Attrs)

\* an unknown element with an attribute below a node that allows unknown
\* children: no attribute result, the bucket passes
C24_WitnessPermitted ==
    /\ Succeeded
    /\ \E i \in TreeNodes :
          /\ ~Recognized(i) /\ UnderAllowUnknown(i)
          /\ nodes[i].Attrs # <<>>
          /\ IAB(i).Status = StatusPass

(***************************************************************************)
(* C25.  Lookup by name on a node that carries an attribute name more than *)
(* once.                                                                   *)
(***************************************************************************)
\* the occurrences of a name among the attributes, and the lookup that lets
\* the last occurrence win
Occurrences(attrs, name) == {k \in 1..Len(attrs) : attrs[k].Name = name}
LastValue(attrs, name) ==
    IF Occurrences(attrs, name) = {} THEN [ok |-> FALSE, value |-> <<>>]
    ELSE [ok |-> TRUE,
          value |-> attrs[CHOOSE k \in Occurrences(attrs, name) :
                              \A j \in Occurrences(attrs, name) : j <= k].Value]
\* the lookup that lets the first occurrence win
FirstValue(attrs, name) ==
    IF Occurrences(attrs, name) = {} THEN [ok |-> FALSE, value |-> <<>>]
    ELSE [ok |-> TRUE,
          value |-> attrs[CHOOSE k \in Occurrences(attrs, name) :
                              \A j \in Occurrences(attrs, name) : k <= j].Value]

\* the call got as far as the lookup of the version on a VAST root
VersionLookedUp ==
    /\ Done /\ WellFormed(raw) /\ TopStarts(raw) # {} /\ RootTok(raw).name = "VAST"
    /\ ~NoRootSpec

\* what Validate makes of the version the lookup delivers
VersionFrom(found) ==
    IF ~found.ok \/ TrimSpace(found.value) = <<>>
    THEN ret.err = ErrMissingVersion
    ELSE Succeeded /\ ret.Version = TrimSpace(found.value)

\* every occurrence of an attribute has its own result, in order
EachOccurrenceReported ==
    Succeeded =>
        \A i \in TreeNodes :
            ~UnderAllowUnknown(i) =>
                /\ Len(IAB(i).Attributes) >= Len(nodes[i].Attrs)
                /\ \A k \in 1..Len(nodes[i].Attrs) :
                      IAB(i).Attributes[k].Name = nodes[i].Attrs[k].Name

\* C25, as the claim states it: the version of the root is the value of the
\* last version attribute the root carries, and the attribute validation
\* reports every occurrence with a result of its own
C25_LastOneWins ==
    /\ VersionLookedUp => VersionFrom(LastValue(RootTok(raw).attrs, "version"))
    /\ EachOccurrenceReported

\* what the code does: the lookup delivers the first occurrence
C25_FirstOneWins ==
    /\ VersionLookedUp => VersionFrom(FirstValue(RootTok(raw).attrs, "version"))
    /\ EachOccurrenceReported

\* a root with two version attributes, the first one empty: the call fails
\* for a missing version although the last occurrence declares one
C25_Witness ==
    /\ VersionLookedUp
    /\ Cardinality(Occurrences(RootTok(raw).attrs, "version")) = 2
    /\ TrimSpace(LastValue(RootTok(raw).attrs, "version").value) # <<>>
    /\ ret.err = ErrMissingVersion

\* a root with two version attributes, the last one empty: the document is
\* walked under the first, and both occurrences have a result
C25_WitnessWalked ==
    /\ Succeeded
    /\ Cardinality(Occurrences(nodes[root].Attrs, "version")) = 2
    /\ LastValue(nodes[root].Attrs, "version").value = <<>>
    /\ ret.Version = Str42
    /\ Len(IAB(root).Attributes) = 2

(***************************************************************************)
(* C26.  The normalization of the asset URL.                               *)
(***************************************************************************)
\* the classes of a trimmed URL text u.  A scheme is a non-empty run of
\* characters before the first ":" with no "/" in it; a host is a non-empty
\* run of characters after the "//" that follows the scheme.
SchemeRelative(u) == Len(u) >= 2 /\ u[1] = "/" /\ u[2] = "/"
Absolute(u) == IF SchemeRelative(u) THEN <<"h", "t", "t", "p", "s", ":">> \o u ELSE u
Unparseable(u) == u # <<>> /\ u[1] = ":"
SchemeLen(u) ==
    IF \E c \in 2..Len(u) : u[c] = ":" /\ \A j \in 1..(c - 1) : u[j] \notin {":", "/"}
    THEN (CHOOSE c \in 2..Len(u) : u[c] = ":" /\ \A j \in 1..(c - 1) : u[j] \notin {":", "/"}) - 1
    ELSE 0
HasHost(u) ==
    LET s == SchemeLen(u)
    IN /\ Len(u) >= s + 4
       /\ u[s + 2] = "/" /\ u[s + 3] = "/" /\ u[s + 4] # "/"
LacksSchemeOrHost(u) == SchemeLen(u) = 0 \/ ~HasHost(u)
WebScheme(u) ==
    ToLowerStr(SubSeq(u, 1, SchemeLen(u))) \in {<<"h", "t", "t", "p">>, <<"h", "t", "t", "p", "s">>}

\* the failure normalization answers a URL text with, "" when it accepts it
Rejection(text) ==
    LET u == Absolute(TrimSpace(text))
    IN IF TrimSpace(text) = <<>> THEN "media URL is empty"
       ELSE IF Unparseable(u) THEN "invalid media URL %q: %w"
       ELSE IF LacksSchemeOrHost(u) THEN "invalid media URL %q: missing scheme or host"
       ELSE IF ~WebScheme(u) THEN "unsupported media URL scheme %q"
       ELSE ""

\* the URL normalization delivers for an accepted text: the scheme in lower
\* case, an https scheme put before a scheme-relative text
Normalized(text) ==
    LET u == Absolute(TrimSpace(text))
    IN ToLowerStr(SubSeq(u, 1, SchemeLen(u))) \o SubSeq(u, SchemeLen(u) + 1, Len(u))

Padded(text) == {text, <<" ">> \o text, text \o <<"\t", " ">>, <<"\n">> \o text \o <<" ">>}

\* the normalization of a text and of the text within blanks
NormalizationOf(text) ==
    \A t \in Padded(text) :
        /\ normalizeProbeURL(t).err = Rejection(text)
        /\ Rejection(text) = "" => normalizeProbeURL(t).url = Normalized(text)

\* what the built-in hook makes of the normalization on the node of entry e
RejectionIsLocal(e) ==
    LET text == nodes[e.node].Content IN
    /\ Rejection(text) # "" =>
          /\ e.requests = <<>>
          /\ e.err = ""
          /\ IF text = <<>> THEN FailsWith(e, "media file URL is empty")
             ELSE /\ FailsWith(e, "media file request failed: %v")
                  /\ e.analysis.Reasons[1].a = Rejection(text)
          /\ e.analysis.Category = CustomAnalysisCategory
          /\ results[e.node].Analyses[CustomAnalysisCategory].Status = StatusFail
          /\ e.analysis.Reasons[1] \in Reasons(e.node, CustomAnalysisCategory)
          /\ Done => (ret.err = "" /\ ret.hasResult)
    /\ Rejection(text) = "" =>
          /\ e.requests # <<>>
          /\ \A r \in 1..Len(e.requests) : e.requests[r].URL = Normalized(text)

\* C26: normalization trims the text, puts https before a scheme-relative
\* text and rejects, each with a failure of its own, the empty text, the
\* text that cannot be parsed, the text without scheme or without host and
\* the scheme that is neither http nor https; after a rejection the hook
\* has sent no request, the failure is in the custom bucket of the node and
\* Validate returns its result without error; an accepted text is probed
\* under its normalized form.
C26_Normalization ==
    /\ \A i \in 1..Len(nodes) : NormalizationOf(nodes[i].Content)
    /\ \A k \in ProbeCalls : RejectionIsLocal(log[k])

\* each class of text was met by a returned call: scheme-relative, no host,
\* no scheme, unparseable, another scheme
C26_Witness ==
    /\ Done /\ ProbeCalls # {}
    /\ \E k \in ProbeCalls :
          /\ SchemeRelative(nodes[log[k].node].Content)
          /\ log[k].requests[1].URL = <<"h", "t", "t", "p", "s", ":", "/", "/", "c">>
C26_WitnessNoHost ==
    /\ Done
    /\ \E k \in ProbeCalls :
          /\ SchemeLen(nodes[log[k].node].Content) > 0
          /\ Rejection(nodes[log[k].node].Content) = "invalid media URL %q: missing scheme or host"
C26_WitnessNoScheme ==
    /\ Done
    /\ \E k \in ProbeCalls :
          /\ SchemeLen(nodes[log[k].node].Content) = 0
          /\ Rejection(nodes[log[k].node].Content) = "invalid media URL %q: missing scheme or host"
C26_WitnessUnparseable ==
    /\ Done
    /\ \E k \in ProbeCalls : Rejection(nodes[log[k].node].Content) = "invalid media URL %q: %w"
C26_WitnessScheme ==
    /\ Done
    /\ \E k \in ProbeCalls :
          /\ Rejection(nodes[log[k].node].Content) = "unsupported media URL scheme %q"
          /\ log[k].requests = <<>>
C26_WitnessUpperCase ==
    /\ Done
    /\ \E k \in ProbeCalls :
          /\ Rejection(nodes[log[k].node].Content) = ""
          /\ nodes[log[k].node].Content # Normalized(nodes[log[k].node].Content)
          /\ ~SchemeRelative(nodes[log[k].node].Content)

(***************************************************************************)
(* C27.  The tree parser.                                                  *)
(***************************************************************************)
Parsed == pc = "parsed"

\* the start tags of a document in order, and the element a token lies in:
\* the last start tag before it that is one level up
StartsOf(d) == SelectSeq([k \in 1..Len(d) |-> k], LAMBDA k : d[k].type = "start")
Owner(d, t) ==
    IF Depth(d, t) = 0 THEN 0
    ELSE CHOOSE s \in 1..(t - 1) :
            /\ d[s].type = "start" /\ Depth(d, s) = Depth(d, t) - 1
            /\ \A s2 \in (s + 1)..(t - 1) :
                  ~(d[s2].type = "start" /\ Depth(d, s2) = Depth(d, t) - 1)
\* the number of the element that start tag s opens; 0 for no start tag
ElementOf(d, s) == Cardinality({k \in 1..s : d[k].type = "start"})

\* the non-blank text runs of the element opened by start tag s, trimmed
TextRunsOf(d, s) ==
    LET runs == SelectSeq([t \in 1..Len(d) |-> t],
                          LAMBDA t : /\ d[t].type = "text" /\ Owner(d, t) = s
                                     /\ TrimSpace(d[t].data) # <<>>)
    IN [k \in 1..Len(runs) |-> TrimSpace(d[runs[k]].data)]

RECURSIVE Concatenated(_)
Concatenated(runs) == IF runs = <<>> THEN <<>> ELSE Head(runs) \o Concatenated(Tail(runs))
RECURSIVE JoinedBySpace(_)
JoinedBySpace(runs) ==
    IF runs = <<>> THEN <<>>
    ELSE IF Len(runs) = 1 THEN Head(runs)
    ELSE Head(runs) \o <<" ">> \o JoinedBySpace(Tail(runs))

\* the outcomes of the parser: a root or one of the two failures
ParserOutcome ==
    /\ ret.hasResult <=> ret.err = ""
    /\ ret.hasResult <=> root # 0
    /\ ret.err = errEmptyXML <=> EmptyInput(raw)
    /\ ret.err \in {errParseXML, "validator: unexpected closing tag"} <=> Malformed(raw)
    /\ ret.err \in {"", errEmptyXML, errParseXML, "validator: unexpected closing tag"}

\* the tree of a parsed document but for the text: one node for each start
\* tag, in order, under its name, with the attributes of the tag in their
\* order, below the element the tag lies in; the root is the last element of
\* the top level
ParsedTree ==
    LET starts == StartsOf(raw) IN
    /\ Len(nodes) = Len(starts)
    /\ \A k \in 1..Len(starts) :
          /\ nodes[k].Name = raw[starts[k]].name
          /\ nodes[k].Attrs = raw[starts[k]].attrs
          /\ nodes[k].Parent = ElementOf(raw, Owner(raw, starts[k]))
    /\ raw[starts[root]] = RootTok(raw)
    /\ \A k \in 1..Len(nodes) :
          \A a, b \in 1..Len(ChildrenOf(nodes, k)) :
              a < b => ChildrenOf(nodes, k)[a] < ChildrenOf(nodes, k)[b]

\* C27, as the claim states it: the parser returns a root or one of the two
\* failures, never both, the empty-document failure exactly for an input
\* without element and a malformed-markup failure exactly for an input the
\* tokenizer rejects, that closes what is not open or that ends with an
\* element open; the tree of a parsed document has its attributes and
\* children in the order of the document, and the text of a node is its
\* non-blank text runs, trimmed and concatenated in order.
C27_TreeOfDocument ==
    Parsed =>
        /\ ParserOutcome
        /\ ret.hasResult =>
              /\ ParsedTree
              /\ \A k \in 1..Len(nodes) :
                    nodes[k].Content = Concatenated(TextRunsOf(raw, StartsOf(raw)[k]))

\* what the code does: the trimmed runs are joined by one blank
C27_RunsJoinedBySpace ==
    Parsed =>
        /\ ParserOutcome
        /\ ret.hasResult =>
              /\ ParsedTree
              /\ \A k \in 1..Len(nodes) :
                    nodes[k].Content = JoinedBySpace(TextRunsOf(raw, StartsOf(raw)[k]))

\* an element with two non-blank text runs around a child element was parsed
C27_Witness ==
    /\ Parsed /\ ret.hasResult
    /\ Len(nodes) = 2
    /\ Len(TextRunsOf(raw, StartsOf(raw)[1])) = 2
    /\ Len(TextRunsOf(raw, StartsOf(raw)[2])) = 1
    /\ nodes[1].Content = <<"x", " ", "y">>

\* the failures: nothing but a comment, an unclosed element, an end tag
\* that closes nothing
C27_WitnessEmpty == Parsed /\ raw = <<CommentTok>> /\ ret.err = errEmptyXML
C27_WitnessOpen ==
    /\ Parsed /\ Len(raw) = 1 /\ raw[1].type = "start" /\ ret.err = errParseXML
C27_WitnessClosing ==
    /\ Parsed /\ Len(raw) = 3 /\ raw[3].type = "end" /\ Depth(raw, 3) = 0
    /\ ret.err # "" /\ ret.err # errEmptyXML

(***************************************************************************)
(* C28.  Names in the hook registries and in the catalog.                  *)
(***************************************************************************)
\* the spellings of the names the documents and the callers use
CaseVariants ==
    { {"VAST", "vast"}, {"Ad", "ad"}, {"Extension", "extension"}, {"Meta", "meta"},
      {"MediaFile", "mediafile", "MEDIAFILE"}, {"AdVerifications", "adverifications"} }
SameIgnoringCase(a, b) == a = b \/ \E S \in CaseVariants : a \in S /\ b \in S

\* the calls of RegisterCustomValidator and RegisterHTTPValidator the caller
\* made, in order
RegistrationsMade == IF "g1" \in DOMAIN goroutines THEN goroutines["g1"].made ELSE <<>>

\* the hooks registered for a name that equals the name of node i but for
\* the case, the built-in hook of "MediaFile" first
RegisteredIgnoringCase(i, registry) ==
    (IF registry = "http" /\ SameIgnoringCase("MediaFile", nodes[i].Name)
     THEN <<BuiltInHTTPHook>> ELSE <<>>)
    \o HooksIn(SelectSeq(RegistrationsMade,
                         LAMBDA c : /\ c.registry = registry /\ c.hook # NilHook
                                    /\ SameIgnoringCase(c.nodeName, nodes[i].Name)))

\* the catalog knows node i under the very name the document writes
CatalogKnows(i) ==
    /\ results[i].VersionSupport = TheCatalog[nodes[i].Name].Versions
    /\ Reason("node %s is not recognized in catalog", nodes[i].Name, "", <<>>)
          \notin Reasons(i, IABAnalysisCategory)
CatalogIgnores(i) ==
    /\ results[i].VersionSupport = <<>>
    /\ ~UnderAllowUnknown(i) => UnknownFails(i)

\* C28: on every node of a validated document, whether the catalog knows it
\* or not and whether it lies below a node that allows unknown children or
\* not, the hooks called are those registered for a name that equals the
\* name of the node ignoring case, in the order of registration; the catalog
\* knows the node only under the exact spelling of its name.
C28_NamesFoldedForHooksOnly ==
    Succeeded =>
        \A i \in TreeNodes :
            /\ HooksOf(CallsOn(i, "custom")) = RegisteredIgnoringCase(i, "custom")
            /\ HooksOf(CallsOn(i, "http")) = RegisteredIgnoringCase(i, "http")
            /\ IF nodes[i].Name \in DOMAIN TheCatalog THEN CatalogKnows(i) ELSE CatalogIgnores(i)

\* a hook registered for "MediaFile" ran on an element written "mediafile"
\* that the catalog does not know, below an element that allows unknown
\* children
C28_Witness ==
    /\ Succeeded
    /\ \E k \in 1..Len(RegistrationsMade) :
          RegistrationsMade[k] = Call("custom", "MediaFile", "syncIAB")
    /\ \E i \in TreeNodes :
          /\ nodes[i].Name = "mediafile"
          /\ UnderAllowUnknown(i)
          /\ results[i].VersionSupport = <<>>
          /\ HooksOf(CallsOn(i, "custom")) = <<"syncIAB">>
          /\ HooksOf(CallsOn(i, "http")) = <<BuiltInHTTPHook>>

\* hooks registered for "MEDIAFILE" and for "mediafile" ran on an element
\* written "MediaFile" below an element the catalog does not know
C28_WitnessKnown ==
    /\ Succeeded
    /\ \E i \in TreeNodes :
          /\ nodes[i].Name = "MediaFile"
          /\ ~Recognized(nodes[i].Parent)
          /\ HooksOf(CallsOn(i, "custom")) = <<"syncFail">>
          /\ HooksOf(CallsOn(i, "http")) = <<BuiltInHTTPHook, "httpIAB">>

\* the element written "mediafile" where unknown children are not allowed:
\* the catalog fails it, the built-in hook probes it
C28_WitnessUnknown ==
    /\ Succeeded
    /\ \E i \in TreeNodes :
          /\ nodes[i].Name = "mediafile"
          /\ ~UnderAllowUnknown(i)
          /\ UnknownFails(i)
          /\ HooksOf(CallsOn(i, "http")) = <<BuiltInHTTPHook>>

(***************************************************************************)
(* C29.  A recognized node whose parent has no spec.                       *)
(***************************************************************************)
\* node i has no parent with a spec: it is the root, or the catalog does not
\* know its parent
Orphan(i) == i = root \/ ~Recognized(nodes[i].Parent)

\* the version support and the attributes of node i are valid in version v
OwnChecksValid(i, v) ==
    /\ InVersions(SpecOf(i).Versions, v)
    /\ MissingOf(i) = {}
    /\ \A k \in 1..Len(nodes[i].Attrs) :
          LET a == nodes[i].Attrs[k] IN
          /\ a.Name \in DOMAIN SpecOf(i).Attributes
          /\ InVersions(SpecOf(i).Attributes[a.Name].Versions, v)
          /\ (TrimSpace(a.Value) # <<>> \/ SpecOf(i).Attributes[a.Name].AllowEmpty)

\* the reasons the parent-child check gives
ChildReasons(i) ==
    { r \in Reasons(i, IABAnalysisCategory) :
        \E p \in {""} \cup {nodes[j].Name : j \in TreeNodes}, v \in {<<>>, DeclaredVersion(raw)} :
            \/ r = Reason("node %s is not a valid child of %s", nodes[i].Name, p, <<>>)
            \/ r = Reason("node %s is not allowed for parent %s in VAST %s", nodes[i].Name, p, v) }

\* C29: with no caller hook registered, a node the catalog recognizes that
\* is the root, or stands directly under a parent the catalog does not know
\* and outside the subtrees that allow unknown children, gets no reason from
\* the parent-child check; when its version support and its attributes are
\* valid its spec-compliance bucket is pass, with no reason.
C29_OrphansAreNotChecked ==
    Succeeded =>
        LET v == DeclaredVersion(raw) IN
        \A i \in TreeNodes :
            (Recognized(i) /\ Orphan(i) /\ ~UnderAllowUnknown(i)) =>
                /\ ChildReasons(i) = {}
                /\ OwnChecksValid(i, v) => IAB(i).Status = StatusPass /\ IAB(i).Reasons = <<>>

\* an Ad element with a valid id stands under an element the catalog does
\* not know, itself under the root, where unknown children fail: the Ad
\* passes although no entry of the catalog declares it a child there
C29_Witness ==
    /\ Succeeded
    /\ \E i \in TreeNodes :
          /\ i # root /\ Recognized(i) /\ ~Recognized(nodes[i].Parent) /\ ~UnderAllowUnknown(i)
          /\ UnknownFails(nodes[i].Parent)
          /\ OwnChecksValid(i, DeclaredVersion(raw))
          /\ nodes[i].Name \notin DOMAIN SpecOf(root).Children
          /\ IAB(i).Status = StatusPass

\* the root passes
C29_WitnessRoot ==
    /\ Succeeded /\ Recognized(root) /\ OwnChecksValid(root, DeclaredVersion(raw))
    /\ IAB(root).Status = StatusPass

\* an orphan whose own attributes fail: the bucket is failed, by the
\* attribute checks alone
C29_WitnessOwnFailure ==
    /\ Succeeded
    /\ \E i \in TreeNodes :
          /\ i # root /\ Recognized(i) /\ ~Recognized(nodes[i].Parent) /\ ~UnderAllowUnknown(i)
          /\ ~OwnChecksValid(i, DeclaredVersion(raw))
          /\ IAB(i).Status = StatusFail
          /\ ChildReasons(i) = {}

(***************************************************************************)
(* C30.  Hooks that register hooks, registrations and validations          *)
(* together.                                                               *)
(***************************************************************************)
\* goroutine g has a call of Register... to make and no goroutine holds the
\* lock of its registry
CouldLock(g) ==
    /\ g \in DOMAIN goroutines
    /\ goroutines[g].pc = "ready" /\ goroutines[g].calls # <<>>
    /\ Head(goroutines[g].calls).hook \notin {NilHook, GetOp}
    /\ mu[Head(goroutines[g].calls).registry] = NoHolder

\* the calls of goroutine g have returned
CallsReturned(g) == g \notin DOMAIN goroutines \/ goroutines[g].calls = <<>>

\* C30: a call of Register..., made by a goroutine or from inside a hook
\* during a validation, waits for nothing but a goroutine that is inside
\* another call of Register... on the same registry; every hook that was
\* called returns; the calls of every goroutine return; and a validation
\* that walks returns.
C30_NoLockWhileHooksRun ==
    /\ [](\A g \in LiveThreads : CouldLock(g) => ENABLED Lock(g))
    /\ (pc = "inhook") ~> (pc = "walk")
    /\ \A g \in LiveThreads : (g \in DOMAIN goroutines) ~> CallsReturned(g)
    /\ (pc \in {"walk", "inhook", "finish"}) ~> (pc = "done")

\* a validation returned after its hooks registered hooks from inside both
\* loops, on the registry the loop had looked up: the hook registered by
\* the first call ran on the second Ad
C30_Witness ==
    /\ Succeeded
    /\ \E k \in 1..Len(log) : log[k].hook = "syncRegisters"
    /\ \E k \in 1..Len(log) : log[k].hook = "httpRegisters"
    /\ \E k \in 1..Len(log) : log[k].hook = "syncPass"
    /\ \E k \in 1..Len(log) : log[k].hook = "httpPass"
    /\ customValidators[ToLower("VAST")] # <<>>
    /\ Len(httpValidators[ToLower("MediaFile")]) > 1

\* a hook called by the loop of applyCustomValidators is about to register
\* on the custom registry
C30_WitnessReentrant ==
    /\ pc = "inhook" /\ phase = "custom"
    /\ CouldLock(HookThread)
    /\ Head(goroutines[HookThread].calls).registry = "custom"

\* the call made from inside a hook waits for a goroutine that is inside
\* its own call of Register...
C30_WitnessWaits ==
    /\ pc = "inhook"
    /\ goroutines[HookThread].pc = "ready" /\ goroutines[HookThread].calls # <<>>
    /\ mu[Head(goroutines[HookThread].calls).registry] = "g1"

\* the walk waits at a lookup while the lock is held
C30_WitnessLookupWaits ==
    /\ pc = "walk" /\ phase = "custom" /\ pending = <<>>
    /\ mu.http = "g1"

(***************************************************************************)
(* C12.  The list a walk iterates is a snapshot.                           *)
(***************************************************************************)
\* the calls the lookups of the walk ask for, in order
RECURSIVE CallsLookedUp(_)
CallsLookedUp(ls) ==
    IF ls = <<>> THEN <<>>
    ELSE [k \in 1..Len(Head(ls).hooks) |-> <<Head(ls).node, Head(ls).registry, Head(ls).hooks[k]>>]
           \o CallsLookedUp(Tail(ls))
\* the calls the loop at hand has still to make
CallsPending ==
    [k \in 1..Len(pending) |-> <<Top.node, IF phase = "custom" THEN "custom" ELSE "http", pending[k]>>]

\* the calls of Register... that returned, by who made them: those of a
\* goroutine, and those the validating goroutine made from inside the hooks
\* it called, the hooks that returned and the one that runs
RECURSIVE CallsOfHooks(_)
CallsOfHooks(entries) ==
    IF entries = <<>> THEN <<>>
    ELSE (IF Head(entries).hook \in RegisteringHooks
          THEN hookCalls(Head(entries).hook, nodes[Head(entries).node].Name)
          ELSE <<>>) \o CallsOfHooks(Tail(entries))
Registrars == (DOMAIN goroutines \ {HookThread}) \cup {HookThread}
ReturnedCalls(t) ==
    IF t # HookThread THEN goroutines[t].made
    ELSE CallsOfHooks(log)
           \o (IF HookThread \in DOMAIN goroutines THEN goroutines[HookThread].made ELSE <<>>)
\* the hooks the calls of t that returned registered in a registry for a name
\* that is nodeName but for the case, in the order of the calls
RegisteredBy(t, registry, nodeName) ==
    HooksIn(SelectSeq(ReturnedCalls(t),
                      LAMBDA c : /\ c.registry = registry
                                 /\ SameIgnoringCase(c.nodeName, nodeName)
                                 /\ c.hook # NilHook))
\* the hook init() registered
RegisteredByInit(registry, nodeName) ==
    IF registry = "http" /\ SameIgnoringCase(nodeName, "MediaFile")
    THEN <<BuiltInHTTPHook>> ELSE <<>>
\* list is what was registered so far for the name in the registry
HoldsRegistered(list, registry, nodeName) ==
    /\ IsPrefix(RegisteredByInit(registry, nodeName), list)
    /\ IsShuffle(SubSeq(list, Len(RegisteredByInit(registry, nodeName)) + 1, Len(list)),
                 [t \in Registrars |-> RegisteredBy(t, registry, nodeName)])

\* a call of Register... with a hook returns in this step
RegistrationReturns ==
    \E t \in DOMAIN goroutines :
        /\ t \in DOMAIN goroutines'
        /\ Len(goroutines'[t].made) > Len(goroutines[t].made)
        /\ goroutines'[t].made[Len(goroutines'[t].made)].hook # NilHook

\* the calls made and those still to make on the node at hand are the lists
\* the lookups returned, whatever was registered since: a hook registered
\* after the lookup of a visit is not called during the visit
SnapshotIterated ==
    /\ pc \in {"walk", "inhook", "head", "get"}
          => CallsMade \o CallsPending = CallsLookedUp(lookups)
    /\ Succeeded => CallsMade = CallsLookedUp(lookups)
\* a registration leaves the list being iterated, the lookups made and the
\* calls made as they are
RegistrationLeavesIteration ==
    RegistrationReturns => UNCHANGED <<pending, lookups, log, results>>
\* a lookup returns the hooks of every call of Register... for the name of
\* the node that returned before it, those of later calls excluded
LookupHoldsRegistered ==
    \A k \in (Len(lookups) + 1)..Len(lookups') :
        HoldsRegistered(lookups'[k].hooks, lookups'[k].registry, nodes'[lookups'[k].node].Name)

\* C12: the hook list a walk iterates for a node is an independent snapshot
\* taken at the lookup: a registration made after the lookup, by another
\* goroutine or by a running hook, neither changes the list being iterated
\* nor is run during that visit, and it is in the lookups of later visits.
C12_SnapshotAtLookup ==
    []SnapshotIterated /\ [][RegistrationLeavesIteration /\ LookupHoldsRegistered]_vars

LastLookup == lookups[Len(lookups)]
HooksCalledOn(i) == {log[k].hook : k \in {j \in 1..Len(log) : log[j].node = i}}
\* the walk is over.  On the first of two elements of one name the hook
\* "syncRegisters" was called and registered "syncPass" for the name, and a
\* goroutine registered "syncFail" for it after the lookup: neither was
\* called on the first element, both were looked up for the second.
C12_Witness ==
    /\ Succeeded
    /\ \E a \in 1..Len(lookups), b \in 1..Len(lookups) :
          /\ a < b
          /\ lookups[a].registry = "custom" /\ lookups[b].registry = "custom"
          /\ nodes[lookups[a].node].Name = nodes[lookups[b].node].Name
          /\ lookups[a].node # lookups[b].node
          /\ "syncRegisters" \in HooksCalledOn(lookups[a].node)
          /\ HooksCalledOn(lookups[a].node) \cap {"syncPass", "syncFail"} = {}
          /\ {"syncPass", "syncFail"} \subseteq SetOf(lookups[b].hooks)
          /\ \E g \in DOMAIN goroutines : "syncFail" \in SetOf(HooksIn(goroutines[g].made))
\* a goroutine registered a hook for the name of the node at hand after the
\* lookup, while the hooks looked up are still being called
C12_WitnessGoroutine ==
    /\ pc = "walk" /\ phase = "custom" /\ pending # <<>>
    /\ Len(log) > 0 /\ log[Len(log)].node = Top.node
    /\ "syncFail" \notin SetOf(LastLookup.hooks)
    /\ "g2" \in DOMAIN goroutines
    /\ "syncFail" \in SetOf(RegisteredBy("g2", "custom", nodes[Top.node].Name))
\* a running hook registered a hook on the registry whose list is being
\* iterated, for the name of the node at hand
C12_WitnessHook ==
    /\ pc = "inhook" /\ phase = "http"
    /\ LastLookup.node = Top.node /\ LastLookup.registry = "http"
    /\ "httpPass" \notin SetOf(LastLookup.hooks)
    /\ "httpPass" \in SetOf(HooksIn(goroutines[HookThread].made))
\* a hook registered from inside a hook on one element is looked up on a
\* later element of another name; a request of the built-in probe is in
\* flight while a goroutine is inside Register...
C12_WitnessOtherName ==
    /\ pc = "head"
    /\ LastLookup.hooks = <<BuiltInHTTPHook, "httpPass">>
    /\ \E k \in 1..Len(log) : log[k].hook = "syncRegisters"
    /\ \A g \in DOMAIN goroutines : "httpPass" \notin SetOf(HooksIn(goroutines[g].made))
    /\ \E g \in DOMAIN goroutines : goroutines[g].pc = "loaded"

====
